---- MODULE Spec2Model ----
(***************************************************************************)
(* Werewolf game: the authoritative engine (werewolf/engine.py), the two   *)
(* autoplay drivers (werewolf/simulator.py and                             *)
(* games/werewolf_simulator/werewolf/simulator.py) and the envelope of     *)
(* actions the rule-based strategy (strategy.py) can return.               *)
(***************************************************************************)
EXTENDS Integers, Sequences, FiniteSets, TLC

\* ------------------------------------------------------------------ bounds
NumPlayers == 3
MaxDay == 2
MaxEvents == 3
NumSimulations == 2
MaxPlayerCount == 9

\* ------------------------------------------------------- program constants
DayCap == 100
RolloutCap == 20

\* ------------------------------------------------------------ enumerations
Players == 0 .. (NumPlayers - 1)
None == -1
Role == {"WOLF", "SEER", "WITCH", "HUNTER", "VILLAGER"}
Faction == {"WOLF", "VILLAGE"}
NoFaction == "NONE"
Phase == {"NIGHT_WOLF", "NIGHT_SEER", "NIGHT_WITCH", "DAY_DISCUSS", "DAY_VOTE", "GAME_OVER"}
ActionType == {"KILL", "CHECK", "SAVE", "POISON", "VOTE", "SHOOT", "PASS", "SPEAK"}
NoReason == "NONE"
NoArgs == [fn |-> "none"]

VARIABLES
    state,          \* the GameState record (models.py GameState)
    sim,            \* which driver runs: "web" (werewolf/simulator.py),
                    \* "cli" (games/werewolf_simulator/werewolf/simulator.py),
                    \* "api" (direct apply_action calls), "fn" (check_winner alone),
                    \* "est" (one WinRateEstimator.estimate call),
                    \* "bridge" (one web_bridge.py call),
                    \* "create" (one create_default_game call)
    pc,             \* position of the driver inside one iteration of run(), or
                    \* of estimate() inside its loop over the rollouts
    branch,         \* the branch of run() that called resolve_hunter_shots
    hunter_queue,   \* rest of the `for hunter in unshot` iteration
    shots,          \* shots fired in the current resolve_hunter_shots call
    iters,          \* passes of its `while True` that found an unshot Hunter
    vote_map,       \* the DAY_VOTE branch's local vote_map (voter, target) list
    result,         \* value returned by the last pure-function call
    est,            \* the frame of one WinRateEstimator.estimate call
    fast,           \* the FastSimulator of the rollout in progress
    args            \* the arguments of the pure-function call in progress

vars == <<state, sim, pc, branch, hunter_queue, shots, iters, vote_map, result, est, fast,
          args>>

\* --------------------------------------------------------------- records
\* no estimate call is in progress / no FastSimulator exists
NoEstimate == [actor_id |-> None]

NoRollout == [cycle |-> 0]

Player(role) == [role |-> role, alive |-> TRUE, death_reason |-> NoReason]

WitchState == [save_used |-> FALSE, poison_used |-> FALSE, saved_player_id |-> None]

PlayerPrivate == [seer_results |-> <<>>, witch_state |-> WitchState]

\* the fields of models.py Event the engine and the drivers read back
Event(day, phase, description, actor_id, target_id) ==
    [day |-> day, phase |-> phase, description |-> description,
     actor_id |-> actor_id, target_id |-> target_id]

Action(action_type, actor_id, target_id) ==
    [action_type |-> action_type, actor_id |-> actor_id, target_id |-> target_id]

\* GameEngine.__post_init__: all players alive, day 1, NIGHT_WOLF
GameEngine(roles) ==
    [players |-> [p \in Players |-> Player(roles[p])],
     day |-> 1,
     phase |-> "NIGHT_WOLF",
     pending_kill |-> None,
     public_events |-> <<>>,
     private_info |-> [p \in Players |-> PlayerPrivate],
     winner |-> NoFaction]

\* ------------------------------------------------------- engine helpers
PlayerSeq == [i \in 1 .. NumPlayers |-> i - 1]

\* ids of the living players, in list order
alive_players(s) == SelectSeq(PlayerSeq, LAMBDA p : s.players[p].alive)

role_of(s, pid) == s.players[pid].role

faction_of(role) == IF role = "WOLF" THEN "WOLF" ELSE "VILLAGE"

\* ">" where the code has ">="
check_winner_gt(s) ==
    LET alive == alive_players(s)
        wolves == SelectSeq(alive, LAMBDA p : s.players[p].role = "WOLF")
        villagers == SelectSeq(alive, LAMBDA p : s.players[p].role # "WOLF")
    IN  IF Len(wolves) = 0 THEN "VILLAGE"
        ELSE IF Len(wolves) > Len(villagers) THEN "WOLF"
        ELSE NoFaction

check_winner(s) ==
    LET alive == alive_players(s)
        wolves == SelectSeq(alive, LAMBDA p : s.players[p].role = "WOLF")
        villagers == SelectSeq(alive, LAMBDA p : s.players[p].role # "WOLF")
    IN  IF Len(wolves) = 0 THEN "VILLAGE"
        ELSE IF Len(wolves) >= Len(villagers) THEN "WOLF"
        ELSE NoFaction

record_event(s, description, actor_id, target_id) ==
    [s EXCEPT !.public_events =
        Append(@, Event(s.day, s.phase, description, actor_id, target_id))]

\* an unknown id (None included) matches no player: nothing changes
kill_player(s, target_id, reason) ==
    IF target_id \in Players
    THEN [s EXCEPT !.players[target_id].alive = FALSE,
                   !.players[target_id].death_reason = reason]
    ELSE s

resolve_night_nokill(s) ==
    LET s1 == IF s.pending_kill # None
              THEN [record_event(s, "night_kill", None, s.pending_kill)
                        EXCEPT !.pending_kill = None]
              ELSE s
        winner == check_winner(s1)
    IN  IF winner # NoFaction
        THEN record_event([s1 EXCEPT !.winner = winner, !.phase = "GAME_OVER"],
                          "game_over", None, None)
        ELSE [s1 EXCEPT !.phase = "DAY_DISCUSS"]

resolve_night(s) ==
    LET s1 == IF s.pending_kill # None
              THEN [record_event(kill_player(s, s.pending_kill, "WOLF"),
                                 "night_kill", None, s.pending_kill)
                        EXCEPT !.pending_kill = None]
              ELSE s
        winner == check_winner(s1)
    IN  IF winner # NoFaction
        THEN record_event([s1 EXCEPT !.winner = winner, !.phase = "GAME_OVER"],
                          "game_over", None, None)
        ELSE [s1 EXCEPT !.phase = "DAY_DISCUSS"]

resolve_day(s) ==
    LET winner == check_winner(s)
    IN  IF winner # NoFaction
        THEN record_event([s EXCEPT !.winner = winner, !.phase = "GAME_OVER"],
                          "game_over", None, None)
        ELSE [s EXCEPT !.day = @ + 1, !.phase = "NIGHT_WOLF"]

\* the opposite of the value stored
SeerPut_negated(results, target, value) ==
    IF \E i \in 1 .. Len(results) : results[i].target = target
    THEN [i \in 1 .. Len(results) |->
            IF results[i].target = target
            THEN [target |-> target, is_wolf |-> ~value] ELSE results[i]]
    ELSE Append(results, [target |-> target, is_wolf |-> ~value])

\* dict assignment seer_results[target] = value: an existing key keeps its place
SeerPut(results, target, value) ==
    IF \E i \in 1 .. Len(results) : results[i].target = target
    THEN [i \in 1 .. Len(results) |->
            IF results[i].target = target
            THEN [target |-> target, is_wolf |-> value] ELSE results[i]]
    ELSE Append(results, [target |-> target, is_wolf |-> value])

apply_action(s, action) ==
    IF s.phase = "NIGHT_WOLF" /\ action.action_type = "KILL"
    THEN [record_event([s EXCEPT !.pending_kill = action.target_id],
                       "wolf_target", action.actor_id, action.target_id)
            EXCEPT !.phase = "NIGHT_SEER"]
    ELSE IF s.phase = "NIGHT_SEER" /\ action.action_type = "CHECK"
    THEN IF action.target_id \notin Players
         THEN s     \* role_of raises before anything is assigned
         ELSE [record_event(
                  [s EXCEPT !.private_info[action.actor_id].seer_results =
                       SeerPut(@, action.target_id,
                               role_of(s, action.target_id) = "WOLF")],
                  "seer_check", action.actor_id, action.target_id)
                 EXCEPT !.phase = "NIGHT_WITCH"]
    ELSE IF s.phase = "NIGHT_WITCH"
    THEN LET s1 == IF action.action_type = "SAVE" /\ action.target_id # None
                   THEN LET r == record_event(
                                   [s EXCEPT
                                      !.private_info[action.actor_id].witch_state.save_used = TRUE,
                                      !.private_info[action.actor_id].witch_state.saved_player_id = action.target_id],
                                   "witch_save", action.actor_id, action.target_id)
                        IN  IF r.pending_kill = action.target_id
                            THEN [r EXCEPT !.pending_kill = None] ELSE r
                   ELSE s
             s2 == IF action.action_type = "POISON" /\ action.target_id # None
                   THEN kill_player(
                          record_event(
                            [s1 EXCEPT !.private_info[action.actor_id].witch_state.poison_used = TRUE],
                            "witch_poison", action.actor_id, action.target_id),
                          action.target_id, "WITCH")
                   ELSE s1
             s3 == IF action.action_type = "PASS"
                   THEN record_event(s2, "witch_pass", action.actor_id, None)
                   ELSE s2
         IN  resolve_night(s3)
    ELSE IF s.phase = "DAY_DISCUSS" /\ action.action_type = "SPEAK"
    THEN record_event(s, "speak", action.actor_id, None)
    ELSE IF s.phase = "DAY_VOTE" /\ action.action_type = "VOTE"
    THEN resolve_day(record_event(kill_player(s, action.target_id, "VOTE"),
                                  "exile", action.actor_id, action.target_id))
    ELSE s

get_unshot_dead_hunters_anyshot(s) ==
    SelectSeq(PlayerSeq, LAMBDA h :
        /\ s.players[h].role = "HUNTER"
        /\ ~s.players[h].alive
        /\ ~\E i \in 1 .. Len(s.public_events) :
               s.public_events[i].description = "hunter_shot")

get_unshot_dead_hunters_nofilter(s) ==
    SelectSeq(PlayerSeq, LAMBDA h :
        s.players[h].role = "HUNTER" /\ ~s.players[h].alive)

get_unshot_dead_hunters(s) ==
    SelectSeq(PlayerSeq, LAMBDA h :
        /\ s.players[h].role = "HUNTER"
        /\ ~s.players[h].alive
        /\ ~\E i \in 1 .. Len(s.public_events) :
               /\ s.public_events[i].description = "hunter_shot"
               /\ s.public_events[i].actor_id = h)

\* ------------------------------------------- strategy.py: what it can return
\* Trust scores and public claims only narrow the choice inside these sets.
AliveSet(s) == {p \in Players : s.players[p].alive}

choose_wolf_kill(s, actor_id) ==
    LET targets == {p \in AliveSet(s) : s.players[p].role # "WOLF"}
    IN  IF targets # {}
        THEN {Action("KILL", actor_id, t) : t \in targets}
        ELSE {Action("PASS", actor_id, None)}

Checked(s, actor_id) ==
    {s.private_info[actor_id].seer_results[i].target :
        i \in 1 .. Len(s.private_info[actor_id].seer_results)}

choose_seer_check(s, actor_id) ==
    LET unchecked == {p \in AliveSet(s) : p \notin Checked(s, actor_id) /\ p # actor_id}
    IN  IF unchecked # {}
        THEN {Action("CHECK", actor_id, t) : t \in unchecked}
        ELSE {Action("PASS", actor_id, None)}

\* seer_results entries found to be Wolf whose target is alive, in dict order
known_wolves(s, actor_id) ==
    SelectSeq(s.private_info[actor_id].seer_results,
              LAMBDA r : r.is_wolf /\ s.players[r.target].alive)

\* without the tests of the used flags
choose_witch_action_reuse(s, actor_id) ==
    LET target == s.pending_kill
        am_dying == s.pending_kill = actor_id
        kw == known_wolves(s, actor_id)
        candidates == AliveSet(s) \ {actor_id}
        to_poison == IF Len(kw) > 0 THEN {kw[1].target}
                     ELSE IF am_dying THEN candidates
                     ELSE {}
    IN  IF target # None /\ target # actor_id
        THEN {Action("SAVE", actor_id, target)}
        ELSE IF to_poison # {}
        THEN {Action("POISON", actor_id, t) : t \in to_poison}
        ELSE {Action("PASS", actor_id, None)}

\* choose_witch_action also sets the used flag it is about to spend; apply_action
\* sets the same flag again, so the returned Action carries the whole effect.
choose_witch_action(s, actor_id) ==
    LET ws == s.private_info[actor_id].witch_state
        target == s.pending_kill
        am_dying == s.pending_kill = actor_id
        kw == known_wolves(s, actor_id)
        candidates == AliveSet(s) \ {actor_id}
        to_poison == IF Len(kw) > 0 THEN {kw[1].target}
                     ELSE IF am_dying THEN candidates
                     ELSE {}
    IN  IF ~ws.save_used /\ target # None /\ target # actor_id
        THEN {Action("SAVE", actor_id, target)}
        ELSE IF ~ws.poison_used /\ to_poison # {}
        THEN {Action("POISON", actor_id, t) : t \in to_poison}
        ELSE {Action("PASS", actor_id, None)}

choose_vote_target(s, actor_id) ==
    LET kw == known_wolves(s, actor_id)
        non_wolves == {p \in AliveSet(s) : s.players[p].role # "WOLF"}
        saved == s.private_info[actor_id].witch_state.saved_player_id
        candidates == IF role_of(s, actor_id) = "WITCH"
                      THEN (AliveSet(s) \ {actor_id}) \ {saved}
                      ELSE AliveSet(s) \ {actor_id}
    IN  IF Len(kw) > 0 THEN {kw[1].target}
        ELSE IF role_of(s, actor_id) = "WOLF"
        THEN IF non_wolves = {} THEN {actor_id} ELSE non_wolves
        ELSE IF candidates = {} THEN {actor_id} ELSE candidates

\* the later definition in strategy.py (the one in effect)
choose_hunter_shot(s, actor_id) ==
    LET candidates == AliveSet(s) \ {actor_id}
    IN  IF candidates = {} THEN {None} ELSE candidates

\* ------------------------------------------------ simulator.py helpers
get_first_alive_by_role(s, role) ==
    LET q == SelectSeq(PlayerSeq, LAMBDA p : s.players[p].role = role /\ s.players[p].alive)
    IN  IF Len(q) > 0 THEN q[1] ELSE None

\* web driver falls back to players[0]; cli driver returns None
get_first_by_role(s, role, driver) ==
    LET q == SelectSeq(PlayerSeq, LAMBDA p : s.players[p].role = role)
    IN  IF Len(q) > 0 THEN q[1]
        ELSE IF driver = "web" THEN PlayerSeq[1] ELSE None

finalize_after_hunter_nophase(s) ==
    IF s.phase = "GAME_OVER" THEN s
    ELSE LET winner == check_winner(s)
         IN  IF winner # NoFaction
             THEN record_event([s EXCEPT !.winner = winner], "game_over", None, None)
             ELSE s

finalize_after_hunter(s) ==
    IF s.phase = "GAME_OVER" THEN s
    ELSE LET winner == check_winner(s)
         IN  IF winner # NoFaction
             THEN record_event([s EXCEPT !.winner = winner, !.phase = "GAME_OVER"],
                               "game_over", None, None)
             ELSE s

\* vote_counts: one entry per target, in order of first appearance in vote_map
RECURSIVE vote_counts(_)
vote_counts(vm) ==
    IF vm = <<>> THEN <<>>
    ELSE LET t == vm[1].target
             rest == SelectSeq(Tail(vm), LAMBDA v : v.target # t)
             n == Len(vm) - Len(rest)
         IN  <<[target |-> t, count |-> n]>> \o vote_counts(rest)

\* sorted(..., key=count, reverse=True): stable, so equal counts keep dict order
RECURSIVE sorted_votes(_)
sorted_votes(counts) ==
    IF counts = <<>> THEN <<>>
    ELSE LET m == CHOOSE c \in {counts[i].count : i \in 1 .. Len(counts)} :
                      \A j \in 1 .. Len(counts) : counts[j].count <= c
             k == CHOOSE i \in 1 .. Len(counts) :
                      /\ counts[i].count = m
                      /\ \A j \in 1 .. (i - 1) : counts[j].count # m
         IN  <<counts[k]>> \o
             sorted_votes([i \in 1 .. (Len(counts) - 1) |->
                              IF i < k THEN counts[i] ELSE counts[i + 1]])

is_tie_strict(sv) == Len(sv) > 1 /\ sv[2].count > sv[1].count

is_tie(sv) == Len(sv) > 1 /\ sv[2].count = sv[1].count

exiled_player(vm) ==
    LET sv == sorted_votes(vote_counts(vm))
    IN  IF Len(sv) > 0 /\ ~is_tie(sv) THEN sv[1].target ELSE None

vote_description(vm) ==
    LET sv == sorted_votes(vote_counts(vm))
    IN  IF Len(sv) = 0 THEN "no_vote"
        ELSE IF is_tie(sv) THEN "vote_tie" ELSE "vote_exile"

\* every vote map the living players can produce, voters in list order
VoteMaps(s) ==
    LET alive == alive_players(s)
        choices == {f \in [AliveSet(s) -> Players] :
                       \A p \in AliveSet(s) : f[p] \in choose_vote_target(s, p)}
    IN  {[i \in 1 .. Len(alive) |-> [voter |-> alive[i], target |-> f[alive[i]]]] :
            f \in choices}

\* ------------------------------------------------ GameSimulator.run
RoleAssignments == [Players -> Role]

\* `while state.phase != GAME_OVER`, the cli driver's `if state.day > 100: break`,
\* and the exploration bound on days
Running ==
    /\ sim \in {"web", "cli"}
    /\ pc = "loop"
    /\ state.phase # "GAME_OVER"
    /\ (sim = "cli" => ~(state.day > DayCap))
    /\ state.day <= MaxDay

InitRun ==
    /\ \E roles \in RoleAssignments : state = GameEngine(roles)
    /\ sim \in {"web", "cli"}
    /\ pc = "loop"
    /\ branch = "none"
    /\ hunter_queue = <<>>
    /\ shots = 0
    /\ iters = 0
    /\ vote_map = <<>>
    /\ result = "unset"
    /\ est = NoEstimate
    /\ fast = NoRollout
    /\ args = NoArgs

NightWolfStep ==
    /\ Running
    /\ state.phase = "NIGHT_WOLF"
    /\ LET wolf_id == get_first_alive_by_role(state, "WOLF")
       IN  IF wolf_id # None
           THEN \E a \in choose_wolf_kill(state, wolf_id) :
                    state' = apply_action(state, a)
           ELSE state' = [state EXCEPT !.phase = "NIGHT_SEER"]
    /\ branch' = "none"
    /\ UNCHANGED <<sim, args, pc, hunter_queue, shots, iters, vote_map, result, est, fast>>

NightSeerStep ==
    /\ Running
    /\ state.phase = "NIGHT_SEER"
    /\ LET seer_id == get_first_alive_by_role(state, "SEER")
       IN  IF seer_id # None
           THEN \E a \in choose_seer_check(state, seer_id) :
                    state' = apply_action(state, a)
           ELSE state' = [state EXCEPT !.phase = "NIGHT_WITCH"]
    /\ branch' = "none"
    /\ UNCHANGED <<sim, args, pc, hunter_queue, shots, iters, vote_map, result, est, fast>>

\* the witch action (which resolves the night); resolve_hunter_shots is entered next
NightWitchStep ==
    /\ Running
    /\ state.phase = "NIGHT_WITCH"
    /\ LET witch_id == get_first_by_role(state, "WITCH", sim)
       IN  IF witch_id # None
           THEN \E a \in choose_witch_action(state, witch_id) :
                    state' = apply_action(state, a)
           ELSE UNCHANGED state
    /\ pc' = "hunters"
    /\ branch' = "night"
    /\ hunter_queue' = <<>>
    /\ shots' = 0
    /\ iters' = 0
    /\ UNCHANGED <<sim, args, vote_map, result, est, fast>>

\* every living player speaks once, in list order; then the vote opens
DayDiscussStep ==
    /\ Running
    /\ state.phase = "DAY_DISCUSS"
    /\ LET speakers == alive_players(state)
           spoken == [i \in 1 .. Len(speakers) |->
                        Event(state.day, state.phase, "speak", speakers[i], None)]
       IN  state' = [state EXCEPT !.public_events = @ \o spoken, !.phase = "DAY_VOTE"]
    /\ branch' = "none"
    /\ UNCHANGED <<sim, args, pc, hunter_queue, shots, iters, vote_map, result, est, fast>>

\* collect, tally, record the result, exile; resolve_hunter_shots is entered next
DayVoteStep ==
    /\ Running
    /\ state.phase = "DAY_VOTE"
    /\ \E vm \in VoteMaps(state) :
          LET exiled == exiled_player(vm)
              s1 == record_event(state, vote_description(vm), None, exiled)
          IN  /\ state' = IF exiled # None THEN kill_player(s1, exiled, "VOTE") ELSE s1
              /\ vote_map' = vm
    /\ pc' = "hunters"
    /\ branch' = "day"
    /\ hunter_queue' = <<>>
    /\ shots' = 0
    /\ iters' = 0
    /\ UNCHANGED <<sim, args, result, est, fast>>

\* resolve_hunter_shots: top of `while True`
HunterLoopTop ==
    /\ pc = "hunters"
    /\ hunter_queue = <<>>
    /\ LET unshot == get_unshot_dead_hunters(state)
       IN  IF unshot = <<>>
           THEN /\ pc' = "finalize"
                /\ UNCHANGED <<hunter_queue, iters>>
           ELSE /\ hunter_queue' = unshot
                /\ iters' = iters + 1
                /\ UNCHANGED pc
    /\ UNCHANGED <<state, sim, args, branch, shots, vote_map, result, est, fast>>

\* resolve_hunter_shots: one pass of `for hunter in unshot`
HunterShoot ==
    /\ pc = "hunters"
    /\ hunter_queue # <<>>
    /\ LET hunter == Head(hunter_queue)
       IN  \E target_id \in choose_hunter_shot(state, hunter) :
              state' = kill_player(
                          record_event(state, "hunter_shot", hunter, target_id),
                          target_id, "HUNTER")
    /\ hunter_queue' = Tail(hunter_queue)
    /\ shots' = shots + 1
    /\ UNCHANGED <<sim, args, pc, branch, iters, vote_map, result, est, fast>>

\* the day branch's `state.day += 1` left out
Finalize_sameday ==
    /\ pc = "finalize"
    /\ LET s1 == finalize_after_hunter(state)
       IN  state' =
             IF s1.phase = "GAME_OVER" THEN s1
             ELSE IF branch = "day"
                  THEN [s1 EXCEPT !.phase = "NIGHT_WOLF"]
             ELSE IF sim = "cli"
                  THEN [s1 EXCEPT !.phase = "DAY_DISCUSS"]
             ELSE s1
    /\ pc' = "loop"
    /\ vote_map' = <<>>
    /\ UNCHANGED <<sim, args, branch, hunter_queue, shots, iters, result, est, fast>>

\* finalize_after_hunter and the rest of the calling branch
Finalize ==
    /\ pc = "finalize"
    /\ LET s1 == finalize_after_hunter(state)
       IN  state' =
             IF s1.phase = "GAME_OVER" THEN s1
             ELSE IF branch = "day"
                  THEN [s1 EXCEPT !.day = @ + 1, !.phase = "NIGHT_WOLF"]
             ELSE IF sim = "cli"
                  THEN [s1 EXCEPT !.phase = "DAY_DISCUSS"]
             ELSE s1
    /\ pc' = "loop"
    /\ vote_map' = <<>>     \* the local does not outlive the iteration
    /\ UNCHANGED <<sim, args, branch, hunter_queue, shots, iters, result, est, fast>>

Next ==
    \/ NightWolfStep
    \/ NightSeerStep
    \/ NightWitchStep
    \/ DayDiscussStep
    \/ DayVoteStep
    \/ HunterLoopTop
    \/ HunterShoot
    \/ Finalize

Spec == InitRun /\ [][Next]_vars

\* the scheduler never abandons a run() that can still change something
FairSpec == InitRun /\ [][Next]_vars /\ WF_vars(Next)

\* ------------------------------------------------ direct use of the engine
AllActions ==
    {Action(t, a, g) : t \in ActionType, a \in Players, g \in Players \cup {None}}

\* apply_action treats every id alike, so one assignment per role multiset
RoleRank(r) ==
    CASE r = "WOLF" -> 0 [] r = "SEER" -> 1 [] r = "WITCH" -> 2
      [] r = "HUNTER" -> 3 [] r = "VILLAGER" -> 4

SortedRoleAssignments ==
    {roles \in RoleAssignments :
        \A p, q \in Players : p < q => RoleRank(roles[p]) <= RoleRank(roles[q])}

InitApi ==
    /\ \E roles \in SortedRoleAssignments : state = GameEngine(roles)
    /\ sim = "api"
    /\ pc = "loop"
    /\ branch = "none"
    /\ hunter_queue = <<>>
    /\ shots = 0
    /\ iters = 0
    /\ vote_map = <<>>
    /\ result = "unset"
    /\ est = NoEstimate
    /\ fast = NoRollout
    /\ args = NoArgs

ApiApplyAction ==
    /\ sim = "api"
    /\ Len(state.public_events) < MaxEvents
    /\ \E a \in AllActions : state' = apply_action(state, a)
    /\ UNCHANGED <<sim, args, pc, branch, hunter_queue, shots, iters, vote_map, result, est, fast>>

\* the driver's `state.phase = Phase.DAY_VOTE` that closes the discussion
ApiOpenVote ==
    /\ sim = "api"
    /\ state.phase = "DAY_DISCUSS"
    /\ state' = [state EXCEPT !.phase = "DAY_VOTE"]
    /\ UNCHANGED <<sim, args, pc, branch, hunter_queue, shots, iters, vote_map, result, est, fast>>

NextApi == ApiApplyAction \/ ApiOpenVote

SpecApi == InitApi /\ [][NextApi]_vars

\* the engine under either kind of caller
SpecAll == (InitRun \/ InitApi) /\ [][Next \/ NextApi]_vars

\* ------------------------------------------------ check_winner on any partition
InitWinner ==
    /\ \E roles \in RoleAssignments : \E living \in SUBSET Players :
          state = [GameEngine(roles) EXCEPT
                     !.players = [p \in Players |->
                        IF p \in living THEN Player(roles[p])
                        ELSE [role |-> roles[p], alive |-> FALSE,
                              death_reason |-> "UNKNOWN"]]]
    /\ sim = "fn"
    /\ pc = "call"
    /\ branch = "none"
    /\ hunter_queue = <<>>
    /\ shots = 0
    /\ iters = 0
    /\ vote_map = <<>>
    /\ result = "unset"
    /\ est = NoEstimate
    /\ fast = NoRollout
    /\ args = NoArgs

CheckWinnerCall ==
    /\ sim = "fn"
    /\ pc = "call"
    /\ result' = check_winner(state)
    /\ pc' = "returned"
    /\ UNCHANGED <<state, sim, args, branch, hunter_queue, shots, iters, vote_map, est, fast>>

NextWinner == CheckWinnerCall

SpecWinner == InitWinner /\ [][NextWinner]_vars

\* ------------------------------------------------ estimation.py: dicts and lists
\* A dict of roles is kept in insertion order as a sequence of (pid, role) items.
RoleItem(pid, role) == [pid |-> pid, role |-> role]

RoleKeys(d) == {d[i].pid : i \in 1 .. Len(d)}

\* d[pid]
RoleGet(d, pid) == d[CHOOSE i \in 1 .. Len(d) : d[i].pid = pid].role

\* d[pid] = role: an existing key keeps its place
RolePut(d, pid, role) ==
    IF pid \in RoleKeys(d)
    THEN [i \in 1 .. Len(d) |-> IF d[i].pid = pid THEN RoleItem(pid, role) ELSE d[i]]
    ELSE Append(d, RoleItem(pid, role))

\* d.update(items), items taken in order
RECURSIVE RoleUpdate(_, _)
RoleUpdate(d, items) ==
    IF items = <<>> THEN d
    ELSE RoleUpdate(RolePut(d, items[1].pid, items[1].role), Tail(items))

\* list.remove(x): drops the first occurrence
ListRemove(list, x) ==
    LET k == CHOOSE i \in 1 .. Len(list) :
                 list[i] = x /\ \A j \in 1 .. (i - 1) : list[j] # x
    IN  [i \in 1 .. (Len(list) - 1) |-> IF i < k THEN list[i] ELSE list[i + 1]]

\* list.pop(k), 1-based: the list without its k-th element
ListPop(list, k) ==
    [i \in 1 .. (Len(list) - 1) |-> IF i < k THEN list[i] ELSE list[i + 1]]

InList(list, x) == \E i \in 1 .. Len(list) : list[i] = x

Count(list, x) == Cardinality({i \in 1 .. Len(list) : list[i] = x})

\* every order random.shuffle can leave the list in
Shuffles(list) ==
    {q \in [1 .. Len(list) -> {list[i] : i \in 1 .. Len(list)}] :
        \A x \in {list[i] : i \in 1 .. Len(list)} : Count(q, x) = Count(list, x)}

\* ------------------------------------------------ WinRateEstimator.estimate
\* step 1 of estimate, in the order the code fills fixed_roles
\* the observer itself
fixed_own(s, actor_id) == <<RoleItem(actor_id, s.players[actor_id].role)>>

\* a Wolf observer knows every Wolf
fixed_teammates(s, actor_id, fixed) ==
    LET wolves == SelectSeq(PlayerSeq, LAMBDA p : s.players[p].role = "WOLF")
    IN  IF s.players[actor_id].role = "WOLF"
        THEN RoleUpdate(fixed, [i \in 1 .. Len(wolves) |-> RoleItem(wolves[i], "WOLF")])
        ELSE fixed

\* the other way round: a cleared target entered as WOLF
fixed_checks_swapped(s, actor_id, fixed) ==
    LET checks == s.private_info[actor_id].seer_results
    IN  IF s.players[actor_id].role = "SEER"
        THEN RoleUpdate(fixed, [i \in 1 .. Len(checks) |->
                RoleItem(checks[i].target,
                         IF checks[i].is_wolf THEN "VILLAGER" ELSE "WOLF")])
        ELSE fixed

\* a Seer observer's checks: an exposed target is WOLF, a cleared one VILLAGER
fixed_checks(s, actor_id, fixed) ==
    LET checks == s.private_info[actor_id].seer_results
    IN  IF s.players[actor_id].role = "SEER"
        THEN RoleUpdate(fixed, [i \in 1 .. Len(checks) |->
                RoleItem(checks[i].target,
                         IF checks[i].is_wolf THEN "WOLF" ELSE "VILLAGER")])
        ELSE fixed

\* the dead are left out
fixed_dead_skipped(s, fixed) == fixed

\* every dead player shows its role
fixed_dead(s, fixed) ==
    LET dead == SelectSeq(PlayerSeq, LAMBDA p : ~s.players[p].alive)
    IN  RoleUpdate(fixed, [i \in 1 .. Len(dead) |->
                              RoleItem(dead[i], s.players[dead[i]].role)])

fixed_roles(s, actor_id) ==
    fixed_dead(s, fixed_checks(s, actor_id,
                     fixed_teammates(s, actor_id, fixed_own(s, actor_id))))

all_roles_list(s) == [i \in 1 .. NumPlayers |-> s.players[PlayerSeq[i]].role]

\* step 2: every fixed role that is still in the pool is taken out of it
RECURSIVE remove_fixed(_, _)
remove_fixed(pool, fixed) ==
    IF fixed = <<>> THEN pool
    ELSE remove_fixed(IF InList(pool, fixed[1].role)
                      THEN ListRemove(pool, fixed[1].role) ELSE pool,
                      Tail(fixed))

residual_pool(s, actor_id) == remove_fixed(all_roles_list(s), fixed_roles(s, actor_id))

\* every player sampled anew, the fixed ones included
unknown_players_all(s, actor_id) == PlayerSeq

unknown_players(s, actor_id) ==
    SelectSeq(PlayerSeq, LAMBDA p : p \notin RoleKeys(fixed_roles(s, actor_id)))

known_good_ids(s, actor_id) ==
    IF s.players[actor_id].role = "SEER"
    THEN {s.private_info[actor_id].seer_results[i].target :
            i \in {j \in 1 .. Len(s.private_info[actor_id].seer_results) :
                      ~s.private_info[actor_id].seer_results[j].is_wolf}}
    ELSE {}

\* one attempt, first loop: each must-be-good player pops the first non-Wolf
RECURSIVE pop_goods(_, _, _)
pop_goods(temp_pool, must_be_good, assignment) ==
    IF must_be_good = <<>>
    THEN [possible |-> TRUE, temp_pool |-> temp_pool, assignment |-> assignment]
    ELSE IF \E i \in 1 .. Len(temp_pool) : temp_pool[i] # "WOLF"
    THEN LET k == CHOOSE i \in 1 .. Len(temp_pool) :
                      temp_pool[i] # "WOLF" /\ \A j \in 1 .. (i - 1) : temp_pool[j] = "WOLF"
         IN  pop_goods(ListPop(temp_pool, k), Tail(must_be_good),
                       Append(assignment, RoleItem(must_be_good[1], temp_pool[k])))
    ELSE [possible |-> FALSE, temp_pool |-> temp_pool, assignment |-> assignment]

\* one attempt on the shuffled pool q; the others pop the front of what is left
attempt(q, must_be_good, others) ==
    LET g == pop_goods(q, must_be_good, <<>>)
    IN  IF g.possible
        THEN [possible |-> TRUE,
              assignment |-> g.assignment \o
                  [i \in 1 .. Len(others) |-> RoleItem(others[i], g.temp_pool[i])]]
        ELSE [possible |-> FALSE, assignment |-> <<>>]

\* the fallback after the attempts: unknown players take the shuffled pool in order
fallback(q, unknown) == [i \in 1 .. Len(unknown) |-> RoleItem(unknown[i], q[i])]

\* step 3, sampling: the role maps one pass of the simulation loop can build.
\* Whether an attempt succeeds depends on the pool's contents only, so either
\* some shuffle's attempt is taken or all ten fail and the fallback is.
sampled_worlds(s, actor_id) ==
    LET fixed == fixed_roles(s, actor_id)
        unknown == unknown_players(s, actor_id)
        good_ids == known_good_ids(s, actor_id)
        must_be_good == SelectSeq(unknown, LAMBDA u : u \in good_ids)
        others == SelectSeq(unknown, LAMBDA u : u \notin good_ids)
        shuffles == Shuffles(residual_pool(s, actor_id))
        valid == {q \in shuffles : attempt(q, must_be_good, others).possible}
    IN  IF valid # {}
        THEN {RoleUpdate(fixed, attempt(q, must_be_good, others).assignment) : q \in valid}
        ELSE {RoleUpdate(fixed, fallback(q, unknown)) : q \in shuffles}

\* ------------------------------------------------ FastState / FastSimulator
\* a Python condition `if x:` on an Optional[int]: None and 0 are both false
Truthy(x) == x # None /\ x # 0

\* dict(seer_results) is a new object; anything put into it stays in the rollout
seer_checked_shared(s, actor_id) ==
    IF s.players[actor_id].role = "SEER"
    THEN [object |-> "private_info", items |-> s.private_info[actor_id].seer_results]
    ELSE [object |-> "new", items |-> <<>>]

seer_checked_of(s, actor_id) ==
    IF s.players[actor_id].role = "SEER"
    THEN [object |-> "new", items |-> s.private_info[actor_id].seer_results]
    ELSE [object |-> "new", items |-> <<>>]

\* the observer's own Witch flags ignored: both potions always fresh
FastState_fresh(s, actor_id, temp_roles) ==
    [roles |-> temp_roles,
     alive |-> {p \in Players : s.players[p].alive},
     witch_save_used |-> FALSE,
     witch_poison_used |-> FALSE,
     seer_checked |-> seer_checked_of(s, actor_id),
     cycle |-> 0,
     votes |-> <<>>,
     shot |-> None,
     winner |-> NoFaction]

\* FastState(...) as estimate composes it, with the locals of FastSimulator.run
\* (cycle, winner) and of _day_phase (votes, shot)
FastState(s, actor_id, temp_roles) ==
    LET my_witch == s.players[actor_id].role = "WITCH"
        w_state == s.private_info[actor_id].witch_state
    IN  [roles |-> temp_roles,
         alive |-> {p \in Players : s.players[p].alive},
         witch_save_used |-> IF my_witch THEN w_state.save_used ELSE FALSE,
         witch_poison_used |-> IF my_witch THEN w_state.poison_used ELSE FALSE,
         seer_checked |-> seer_checked_of(s, actor_id),
         cycle |-> 0,
         votes |-> <<>>,
         shot |-> None,
         winner |-> NoFaction]

\* iteration over the set `alive`: small ints come out in ascending order
AliveSeq(f) == SelectSeq(PlayerSeq, LAMBDA p : p \in f.alive)

FastWolves(f) == SelectSeq(AliveSeq(f), LAMBDA p : RoleGet(f.roles, p) = "WOLF")

FastGood(f) == SelectSeq(AliveSeq(f), LAMBDA p : RoleGet(f.roles, p) # "WOLF")

\* without the `if not wolves` test
is_game_over_nowolves(f) ==
    IF Len(FastWolves(f)) >= Len(FastGood(f)) THEN "WOLF"
    ELSE NoFaction

is_game_over(f) ==
    IF Len(FastWolves(f)) = 0 THEN "VILLAGE"
    ELSE IF Len(FastWolves(f)) >= Len(FastGood(f)) THEN "WOLF"
    ELSE NoFaction

\* the first id, in dict order, that holds the role
find_role(f, role) ==
    LET q == SelectSeq(f.roles, LAMBDA it : it.role = role)
    IN  IF Len(q) > 0 THEN q[1].pid ELSE None

\* the targets _wolf_choose_target can return
wolf_choose_target(f) ==
    LET good_alive == {FastGood(f)[i] : i \in 1 .. Len(FastGood(f))}
        seer == find_role(f, "SEER")
        witch == find_role(f, "WITCH")
    IN  IF good_alive = {} THEN {None}
        ELSE IF seer \in f.alive THEN {seer}
        ELSE IF witch \in f.alive THEN {witch}
        ELSE good_alive

get_suspects(f, actor_id) == f.alive \ {actor_id}

CheckedKeys(f) == {f.seer_checked.items[i].target : i \in 1 .. Len(f.seer_checked.items)}

\* _night_phase for one outcome of its random draws
night_result(f, target, saved, poison_target, check) ==
    LET f1 == [f EXCEPT !.witch_save_used = @ \/ saved,
                        !.witch_poison_used = @ \/ (poison_target # None)]
        f2 == IF check # None
              THEN [f1 EXCEPT !.seer_checked.items =
                       SeerPut(@, check, RoleGet(f.roles, check) = "WOLF")]
              ELSE f1
        deaths == (IF ~saved /\ target # None THEN {target} ELSE {})
                  \cup (IF poison_target # None THEN {poison_target} ELSE {})
    IN  [f2 EXCEPT !.alive = @ \ deaths, !.shot = None]

\* every FastState _night_phase can leave behind
night_phase(f) ==
    LET witch_id == find_role(f, "WITCH")
        seer_id == find_role(f, "SEER")
        saves == IF witch_id \in f.alive /\ ~f.witch_save_used
                 THEN {TRUE, FALSE} ELSE {FALSE}
        poisons == IF witch_id \in f.alive /\ ~f.witch_poison_used
                   THEN {None} \cup get_suspects(f, witch_id) ELSE {None}
        unknowns == IF seer_id \in f.alive
                    THEN (f.alive \ {seer_id}) \ CheckedKeys(f) ELSE {}
        checks == IF unknowns # {} THEN unknowns ELSE {None}
    IN  {night_result(f, target, saved, poison_target, check) :
            target \in wolf_choose_target(f), saved \in saves,
            poison_target \in poisons, check \in checks}

\* votes[t] = votes.get(t, 0) + 1; None stands for a voter who casts nothing
RECURSIVE cast(_, _)
cast(votes, targets) ==
    IF targets = <<>> THEN votes
    ELSE LET t == targets[1]
             put == IF t = None THEN votes
                    ELSE IF \E i \in 1 .. Len(votes) : votes[i].target = t
                    THEN [i \in 1 .. Len(votes) |->
                            IF votes[i].target = t
                            THEN [target |-> t, count |-> votes[i].count + 1]
                            ELSE votes[i]]
                    ELSE Append(votes, [target |-> t, count |-> 1])
         IN  cast(put, Tail(targets))

\* the Wolf the day phase treats as exposed, None if there is none
known_wolf_of(f) ==
    LET seer_id == find_role(f, "SEER")
        found == SelectSeq(f.seer_checked.items,
                           LAMBDA it : it.is_wolf /\ it.target \in f.alive)
    IN  IF seer_id \in f.alive /\ Len(found) > 0 THEN found[1].target ELSE None

\* the votes dict for one outcome of the random draws
day_votes_for(f, wolf_target, choice) ==
    LET wolves == FastWolves(f)
        good == FastGood(f)
        known_wolf == known_wolf_of(f)
        wolf_votes == [i \in 1 .. Len(wolves) |->
                         IF Truthy(wolf_target) THEN wolf_target ELSE None]
        good_votes == [i \in 1 .. Len(good) |->
                         IF Truthy(known_wolf) THEN known_wolf ELSE choice[good[i]]]
    IN  cast(<<>>, wolf_votes \o good_votes)

\* every votes dict _day_phase can collect
day_votes(f) ==
    LET good == {FastGood(f)[i] : i \in 1 .. Len(FastGood(f))}
        wolf_targets == IF good # {} THEN good ELSE {None}
        choices == {c \in [good -> Players \cup {None}] :
                       \A g \in good :
                           c[g] \in (IF f.alive \ {g} # {} THEN f.alive \ {g} ELSE {None})}
    IN  {day_votes_for(f, wolf_target, choice) :
            wolf_target \in wolf_targets, choice \in choices}

\* a tally that never removes anybody
day_tally_keep(f) == {[f EXCEPT !.shot = None]}

\* the tally: the first entry of the stable descending sort leaves, and a
\* Hunter who leaves takes one more living player along
day_tally(f) ==
    IF f.votes = <<>> THEN {f}
    ELSE LET top_target == sorted_votes(f.votes)[1].target
             f1 == [f EXCEPT !.alive = @ \ {top_target}, !.shot = None]
         IN  IF top_target \in RoleKeys(f.roles)
                /\ RoleGet(f.roles, top_target) = "HUNTER"
                /\ f1.alive # {}
             THEN {[f1 EXCEPT !.alive = @ \ {shot}, !.shot = shot] :
                      shot \in f1.alive}
             ELSE {f1}

\* ------------------------------------------------ estimate() as a process
\* the checks a Seer can hold: distinct targets other than itself, true results
CheckSeqs(roles, actor_id) ==
    IF roles[actor_id] # "SEER" THEN {<<>>}
    ELSE UNION {
            {[i \in 1 .. n |-> [target |-> q[i], is_wolf |-> roles[q[i]] = "WOLF"]] :
                q \in {r \in [1 .. n -> Players \ {actor_id}] :
                          \A i, j \in 1 .. n : i # j => r[i] # r[j]}} :
            n \in 0 .. (NumPlayers - 1)}

\* the potion flags a Witch can hold
WitchStates(roles, actor_id) ==
    IF roles[actor_id] # "WITCH" THEN {WitchState}
    ELSE {[save_used |-> su, poison_used |-> pu,
           saved_player_id |-> IF su /\ NumPlayers > 1
                               THEN CHOOSE p \in Players : p # actor_id ELSE None] :
             su \in BOOLEAN, pu \in BOOLEAN}

\* the GameState a recommend() call hands over: some players dead, the
\* observer's own checks and potion flags
InitEstimate(assignments) ==
    /\ \E roles \in assignments : \E living \in SUBSET Players :
       \E actor_id \in Players :
       \E checks \in CheckSeqs(roles, actor_id) :
       \E ws \in WitchStates(roles, actor_id) :
          /\ state = [GameEngine(roles) EXCEPT
                        !.players = [p \in Players |->
                           IF p \in living THEN Player(roles[p])
                           ELSE [role |-> roles[p], alive |-> FALSE,
                                 death_reason |-> "UNKNOWN"]],
                        !.private_info[actor_id] =
                           [seer_results |-> checks, witch_state |-> ws]]
          /\ est = [actor_id |-> actor_id, wins |-> 0, sims |-> 0,
                    call |-> 1, first |-> "unset", start |-> "unset"]
    /\ sim = "est"
    /\ pc = "sample"
    /\ branch = "none"
    /\ hunter_queue = <<>>
    /\ shots = 0
    /\ iters = 0
    /\ vote_map = <<>>
    /\ result = "unset"
    /\ fast = NoRollout
    /\ args = NoArgs

\* what a write to the rollout's objects leaves in the GameState: a dict the
\* rollout shares with private_info is the same object there
GameStateAfter(s, actor_id, f) ==
    IF f.seer_checked.object = "private_info"
    THEN [s EXCEPT !.private_info[actor_id].seer_results = f.seer_checked.items]
    ELSE s

\* what a rollout starts from, apart from the sampled roles
StartOf(f) ==
    [alive |-> f.alive, witch_save_used |-> f.witch_save_used,
     witch_poison_used |-> f.witch_poison_used, seer_checked |-> f.seer_checked.items]

\* one pass of `for _ in range(self.num_simulations)`: sample a world, build
\* the FastState, construct the FastSimulator. est.start keeps what the first
\* rollout of the call started from (history, read by the properties only).
RolloutBegin ==
    /\ sim = "est"
    /\ pc = "sample"
    /\ \E temp_roles \in sampled_worlds(state, est.actor_id) :
          fast' = FastState(state, est.actor_id, temp_roles)
    /\ est' = IF est.sims = 0 /\ est.call = 1
              THEN [est EXCEPT !.start = StartOf(fast')] ELSE est
    /\ pc' = "run_top"
    /\ UNCHANGED <<state, sim, args, branch, hunter_queue, shots, iters, vote_map, result>>

\* FastSimulator.run: the loop head, the first is_game_over, _night_phase
RunNightPhase ==
    /\ sim = "est"
    /\ pc = "run_top"
    /\ IF fast.cycle = RolloutCap
       THEN /\ fast' = [fast EXCEPT !.winner = "VILLAGE"]
            /\ pc' = "rollout_done"
       ELSE IF is_game_over(fast) # NoFaction
       THEN /\ fast' = [fast EXCEPT !.winner = is_game_over(fast)]
            /\ pc' = "rollout_done"
       ELSE /\ \E f \in night_phase(fast) : fast' = f
            /\ pc' = "run_mid"
    /\ state' = GameStateAfter(state, est.actor_id, fast')
    /\ UNCHANGED <<sim, args, branch, hunter_queue, shots, iters, vote_map, result, est>>

\* FastSimulator.run: the second is_game_over, _day_phase up to the tally
RunDayVotes ==
    /\ sim = "est"
    /\ pc = "run_mid"
    /\ IF is_game_over(fast) # NoFaction
       THEN /\ fast' = [fast EXCEPT !.winner = is_game_over(fast)]
            /\ pc' = "rollout_done"
       ELSE /\ \E votes \in day_votes(fast) : fast' = [fast EXCEPT !.votes = votes]
            /\ pc' = "tally"
    /\ UNCHANGED <<state, sim, args, branch, hunter_queue, shots, iters, vote_map, result, est>>

\* _day_phase from the tally on, and the end of the loop body
RunDayTally ==
    /\ sim = "est"
    /\ pc = "tally"
    /\ \E f \in day_tally(fast) :
          fast' = [f EXCEPT !.votes = <<>>, !.cycle = @ + 1]
    /\ pc' = "run_top"
    /\ UNCHANGED <<state, sim, args, branch, hunter_queue, shots, iters, vote_map, result, est>>

\* every observer counted as Village
my_faction_village(s, actor_id) == "VILLAGE"

my_faction(s, actor_id) == IF s.players[actor_id].role = "WOLF" THEN "WOLF" ELSE "VILLAGE"

\* `if winner == my_faction: wins += 1`, the next pass, and after the last
\* one `return wins / self.num_simulations` (kept as numerator and denominator)
RolloutEnd ==
    /\ sim = "est"
    /\ pc = "rollout_done"
    /\ LET wins == IF fast.winner = my_faction(state, est.actor_id)
                   THEN est.wins + 1 ELSE est.wins
       IN  /\ est' = [est EXCEPT !.wins = wins, !.sims = @ + 1]
           /\ IF est.sims + 1 = NumSimulations
              THEN /\ pc' = "returned"
                   /\ result' = [wins |-> wins, num_simulations |-> NumSimulations]
              ELSE /\ pc' = "sample"
                   /\ UNCHANGED result
    /\ UNCHANGED <<state, sim, args, branch, hunter_queue, shots, iters, vote_map, fast>>

\* the sampling step alone, on every cast
InitSample == InitEstimate(RoleAssignments)

NextSample == RolloutBegin

SpecSample == InitSample /\ [][NextSample]_vars

\* one rollout from the sampled world to its return, on every cast
NextRollout ==
    \/ RolloutBegin
    \/ RunNightPhase
    \/ RunDayVotes
    \/ RunDayTally

SpecRollout == InitSample /\ [][NextRollout]_vars

\* the whole call; the loop over the rollouts treats every id alike, so one
\* assignment per role multiset
InitEst == InitEstimate(SortedRoleAssignments)

NextEst ==
    \/ RolloutBegin
    \/ RunNightPhase
    \/ RunDayVotes
    \/ RunDayTally
    \/ RolloutEnd

SpecEst == InitEst /\ [][NextEst]_vars

\* a second run of the same game under the same seed: every choice drawn from
\* the seeded generator repeats, so recommend() calls estimate again on the
\* same GameState for the same player
ReplayBegin ==
    /\ sim = "est"
    /\ pc = "returned"
    /\ est.call = 1
    /\ est' = [est EXCEPT !.call = 2, !.first = result, !.wins = 0, !.sims = 0]
    /\ pc' = "sample"
    /\ UNCHANGED <<state, sim, args, branch, hunter_queue, shots, iters, vote_map, result, fast>>

NextReplay == NextEst \/ ReplayBegin

SpecReplay == InitEst /\ [][NextReplay]_vars

\* ================================================================ web bridge
\* (web_bridge.py). store.roles is a dict pid -> role name; a history entry is
\* the dict GameSimulator.run builds from one public event.
Hidden == "hidden"            \* the placeholder description of a redacted event

\* store.roles.get(pid): None (NoRole, among the role names) for an id the
\* dict does not hold
NoRole == "NONE"

roles_get(roles, pid) == IF pid \in DOMAIN roles THEN roles[pid] ELSE NoRole

\* the wolf-teammate clause left out
is_visible_public(event, player_id, roles) ==
    \/ event.phase \in {"DAY_VOTE", "DAY_DISCUSS", "GAME_OVER"}
    \/ event.actor_id = player_id

is_visible(event, player_id, roles) ==
    LET my_role == roles_get(roles, player_id)
        actor_role == IF event.actor_id # None
                      THEN roles_get(roles, event.actor_id) ELSE NoRole
    IN  \/ event.phase \in {"DAY_VOTE", "DAY_DISCUSS", "GAME_OVER"}
        \/ event.actor_id = player_id
        \/ (my_role = "WOLF" /\ actor_role = "WOLF")

\* `player_id is None or player_id == -1`: both spellings of "no viewer" are
\* the one value None here
filter_event_for_player(event, player_id, roles) ==
    IF player_id = None THEN event
    ELSE IF ~is_visible(event, player_id, roles)
    THEN [day |-> event.day,
          phase |-> event.phase,
          description |-> Hidden,
          actor_id |-> None,
          target_id |-> None,
          is_hidden |-> TRUE,
          recommendation |-> None]
    ELSE [day |-> event.day,
          phase |-> event.phase,
          description |-> event.description,
          actor_id |-> event.actor_id,
          target_id |-> event.target_id,
          is_hidden |-> FALSE,
          recommendation |->
              IF Truthy(event.recommendation) /\ event.actor_id = player_id
              THEN event.recommendation ELSE None,
          statement |-> event.statement,
          trust_scores |-> event.trust_scores,
          votes |-> event.votes]

\* history entries: every phase, an actor and a target that may be absent,
\* with and without the strategy's recommendation attached
\* (1 stands for the non-empty recommendation dict)
Recommendations == {None, 1}
HistoryDescriptions == {"wolf_target", "speak"}

HistoryEvents ==
    [day : 1 .. MaxDay, phase : Phase, description : HistoryDescriptions,
     actor_id : Players \cup {None}, target_id : Players \cup {None},
     recommendation : Recommendations, statement : {None},
     trust_scores : {None}, votes : {None}, vote_reasons : {None}]

\* the viewers: every player, an id the game does not hold, and no viewer
Viewers == Players \cup {NumPlayers, None}

InitFilter ==
    /\ \E roles \in SortedRoleAssignments :
          /\ state = GameEngine(roles)
          /\ \E event \in HistoryEvents : \E player_id \in Viewers :
                args = [fn |-> "filter_event_for_player", event |-> event,
                        player_id |-> player_id, roles |-> roles]
    /\ sim = "bridge"
    /\ pc = "call"
    /\ branch = "none"
    /\ hunter_queue = <<>>
    /\ shots = 0
    /\ iters = 0
    /\ vote_map = <<>>
    /\ result = "unset"
    /\ est = NoEstimate
    /\ fast = NoRollout

FilterCall ==
    /\ sim = "bridge"
    /\ pc = "call"
    /\ args.fn = "filter_event_for_player"
    /\ result' = filter_event_for_player(args.event, args.player_id, args.roles)
    /\ pc' = "returned"
    /\ UNCHANGED <<state, sim, args, branch, hunter_queue, shots, iters, vote_map, est,
                   fast>>

NextFilter == FilterCall

SpecFilter == InitFilter /\ [][NextFilter]_vars

\* ================================================================ game creation
\* (engine.py create_default_game). The players list is modelled by the roles
\* of players 0, 1, ... in order; the config is the GameConfig passed on to
\* GameEngine, which keeps a config it is given.
Rep(role, n) == [i \in 1 .. n |-> role]

default_roles_list(player_count) ==
    IF player_count = 6
    THEN Rep("WOLF", 2) \o Rep("VILLAGER", 2) \o <<"SEER", "WITCH">>
    ELSE IF player_count = 9
    THEN Rep("WOLF", 3) \o Rep("VILLAGER", 3) \o <<"SEER", "WITCH", "HUNTER">>
    ELSE IF player_count = 12
    THEN Rep("WOLF", 4) \o Rep("VILLAGER", 5) \o <<"SEER", "WITCH", "HUNTER">>
    ELSE IF player_count = 15
    THEN Rep("WOLF", 5) \o Rep("VILLAGER", 5)
         \o <<"SEER", "WITCH", "HUNTER", "VILLAGER", "VILLAGER">>
    ELSE Rep("WOLF", 2) \o Rep("VILLAGER", 2) \o <<"SEER", "WITCH">>

default_victory_condition(player_count) ==
    IF player_count = 6 THEN "city_slaughter" ELSE "side_slaughter"

\* {r: roles_list.count(r) for r in set(roles_list)}
role_counts(roles_list) ==
    [r \in {roles_list[i] : i \in 1 .. Len(roles_list)} |-> Count(roles_list, r)]

GameConfig(player_count, roles_list) ==
    [player_count |-> player_count,
     roles |-> role_counts(roles_list),
     victory_condition |-> default_victory_condition(player_count)]

\* every GameState create_default_game can return, one per shuffle
create_default_game(player_count) ==
    {[players |-> [i \in 1 .. Len(q) |-> Player(q[i])],
      day |-> 1,
      phase |-> "NIGHT_WOLF",
      config |-> GameConfig(player_count, q)] :
        q \in Shuffles(default_roles_list(player_count))}

InitCreate ==
    /\ \E player_count \in 0 .. MaxPlayerCount :
          args = [fn |-> "create_default_game", player_count |-> player_count]
    /\ state = GameEngine([p \in Players |-> "VILLAGER"])   \* not read by the call
    /\ sim = "create"
    /\ pc = "call"
    /\ branch = "none"
    /\ hunter_queue = <<>>
    /\ shots = 0
    /\ iters = 0
    /\ vote_map = <<>>
    /\ result = "unset"
    /\ est = NoEstimate
    /\ fast = NoRollout

CreateCall ==
    /\ sim = "create"
    /\ pc = "call"
    /\ result' \in create_default_game(args.player_count)
    /\ pc' = "returned"
    /\ UNCHANGED <<state, sim, args, branch, hunter_queue, shots, iters, vote_map, est,
                   fast>>

NextCreate == CreateCall

SpecCreate == InitCreate /\ [][NextCreate]_vars

\* ================================================================ exceptions
\* which calls leave by an exception instead of returning. Ids outside the
\* game: one past the last player, and one below the range a negative list
\* index can reach.
UnknownIds == {NumPlayers, 0 - NumPlayers - 1}

\* get_player: next() over an empty generator raises StopIteration
get_player_raises(s, player_id) == player_id \notin Players

\* apply_action: the CHECK branch looks its target up with role_of and indexes
\* private_info by the actor, the SAVE and POISON branches index private_info
\* by the actor; no other branch looks a player up
apply_action_raises(s, action) ==
    \/ /\ s.phase = "NIGHT_SEER"
       /\ action.action_type = "CHECK"
       /\ (get_player_raises(s, action.target_id) \/ action.actor_id \notin Players)
    \/ /\ s.phase = "NIGHT_WITCH"
       /\ action.action_type \in {"SAVE", "POISON"}
       /\ action.target_id # None
       /\ action.actor_id \notin Players

\* kill_player: the loop finds no player and the function returns
kill_player_raises(s, target_id) == FALSE

\* estimate: state.players[actor_id] is evaluated only when
\* actor_id < len(state.players), so only an index below -len raises
estimate_raises(s, actor_id) == actor_id < 0 - NumPlayers

\* estimate: `if not my_player: return 0.5`
estimate_returns_default(s, actor_id) ==
    ~estimate_raises(s, actor_id) /\ actor_id \notin Players

\* ---------------------------------------------------------------- get_game_step
\* GameSimulator.run's last statement: the history built from public_events
\* (the model's events carry no recommendation, statement or vote details)
history_of(s) ==
    [i \in 1 .. Len(s.public_events) |->
        [day |-> s.public_events[i].day,
         phase |-> s.public_events[i].phase,
         description |-> s.public_events[i].description,
         actor_id |-> s.public_events[i].actor_id,
         target_id |-> s.public_events[i].target_id,
         recommendation |-> None, statement |-> None,
         trust_scores |-> None, votes |-> None, vote_reasons |-> None]]

\* store.roles of the game that was run
store_roles(s) == [p \in Players |-> s.players[p].role]

\* the cause get_game_step reads off an event's description
death_reason_of(description) ==
    CASE description = "hunter_shot" -> "HUNTER"
      [] description \in {"vote_exile", "exile"} -> "VOTE"
      [] description = "night_kill" -> "WOLF"
      [] description = "witch_poison" -> "WITCH"
      [] OTHER -> NoReason

\* the poison event not read as a death
replay_event_nopoison(player_states, evt) ==
    LET reason == death_reason_of(evt.description)
    IN  IF evt.target_id # None /\ reason # NoReason /\ reason # "WITCH"
           /\ evt.target_id \in DOMAIN player_states
        THEN [player_states EXCEPT ![evt.target_id] =
                 [alive |-> FALSE, death_reason |-> reason]]
        ELSE player_states

\* one pass of `for i in range(step_index + 1)`, the death part
replay_event(player_states, evt) ==
    LET reason == death_reason_of(evt.description)
    IN  IF evt.target_id # None /\ reason # NoReason
           /\ evt.target_id \in DOMAIN player_states
        THEN [player_states EXCEPT ![evt.target_id] =
                 [alive |-> FALSE, death_reason |-> reason]]
        ELSE player_states

\* player_states after the events 0 .. step_index (the first n of the list)
RECURSIVE replay(_, _, _)
replay(player_states, history, n) ==
    IF n = 0 THEN player_states
    ELSE replay_event(replay(player_states, history, n - 1), history[n])

\* the roles shown to the viewer
visible_roles(roles, view_player_id) ==
    IF view_player_id = None THEN roles
    ELSE [p \in {q \in DOMAIN roles :
                    \/ q = view_player_id
                    \/ roles[view_player_id] = "WOLF" /\ roles[q] = "WOLF"} |-> roles[p]]

get_game_step(history, roles, step_index, view_player_id) ==
    IF history = <<>> THEN [error |-> "Game not initialized"]
    ELSE IF step_index < 0 \/ step_index >= Len(history)
    THEN [error |-> "Step index out of range"]
    ELSE [step_index |-> step_index,
          event |-> filter_event_for_player(history[step_index + 1], view_player_id, roles),
          total_steps |-> Len(history),
          roles |-> visible_roles(roles, view_player_id),
          player_states |->
              replay([p \in DOMAIN roles |-> [alive |-> TRUE, death_reason |-> NoReason]],
                     history, step_index + 1)]

\* the front end asks for a step of the game the web driver has run, once:
\* the last step or one past it (an earlier step replays a shorter log, the
\* log of an earlier state of the game)
GameStepCall ==
    /\ sim = "web"
    /\ pc = "loop"
    /\ state.phase = "GAME_OVER"     \* run() has returned and stored the history
    /\ args.fn = "none"
    /\ \E step_index \in {Len(state.public_events) - 1, Len(state.public_events)} :
       \E view_player_id \in {None, 0} :
          /\ args' = [fn |-> "get_game_step", step_index |-> step_index,
                      view_player_id |-> view_player_id]
          /\ result' = get_game_step(history_of(state), store_roles(state),
                                     step_index, view_player_id)
    /\ UNCHANGED <<state, sim, pc, branch, hunter_queue, shots, iters, vote_map, est, fast>>

NextStep == Next \/ GameStepCall

SpecStep == InitRun /\ [][NextStep]_vars

\* ------------------------------------------------ is_game_over beside check_winner
\* FastState.is_game_over called on a rollout state that holds the roles and the
\* living players of the GameState
IsGameOverCall ==
    /\ sim = "fn"
    /\ pc = "call"
    /\ fast' = FastState(state, 0,
                  [i \in 1 .. NumPlayers |->
                      [pid |-> PlayerSeq[i], role |-> state.players[PlayerSeq[i]].role]])
    /\ result' = is_game_over(fast')
    /\ pc' = "over"
    /\ UNCHANGED <<state, sim, args, branch, hunter_queue, shots, iters, vote_map, est>>

NextOver == CheckWinnerCall \/ IsGameOverCall

SpecOver == InitWinner /\ [][NextOver]_vars

\* ------------------------------------------------ engine.py: get_player_view
\* the dict returned for a player of the game (get_player raises for any other id)
get_player_view(s, player_id) ==
    LET player == s.players[player_id]
        private == s.private_info[player_id]
    IN  [player_id |-> player_id,
         role |-> player.role,
         alive |-> player.alive,
         day |-> s.day,
         phase |-> s.phase,
         seer_results |-> private.seer_results,
         witch_state |-> [save_used |-> private.witch_state.save_used,
                          poison_used |-> private.witch_state.poison_used],
         public_events |-> [i \in 1 .. Len(s.public_events) |->
                              [day |-> s.public_events[i].day,
                               phase |-> s.public_events[i].phase,
                               description |-> s.public_events[i].description,
                               actor_id |-> s.public_events[i].actor_id,
                               target_id |-> s.public_events[i].target_id]],
         alive_players |-> alive_players(s),
         all_players_state |-> [p \in Players |->
                                  [alive |-> s.players[p].alive,
                                   role |-> s.players[p].role,
                                   death_reason |-> s.players[p].death_reason]]]

\* a caller asks for a player's view of the game as it stands
PlayerViewCall ==
    /\ sim = "api"
    /\ args.fn = "none"
    /\ \E player_id \in Players :
          /\ args' = [fn |-> "get_player_view", player_id |-> player_id]
          /\ result' = get_player_view(state, player_id)
    /\ UNCHANGED <<state, sim, pc, branch, hunter_queue, shots, iters, vote_map, est, fast>>

\* the game goes on until a view has been asked for
ViewApplyAction == args.fn = "none" /\ ApiApplyAction

ViewOpenVote == args.fn = "none" /\ ApiOpenVote

NextView == ViewApplyAction \/ ViewOpenVote \/ PlayerViewCall

SpecView == InitApi /\ [][NextView]_vars

\* ================================================================ properties
LivingWolves(s) == {p \in Players : s.players[p].alive /\ s.players[p].role = "WOLF"}

LivingOthers(s) == {p \in Players : s.players[p].alive /\ s.players[p].role # "WOLF"}

\* the win condition as the design states it
WinCondition(s) ==
    IF LivingWolves(s) = {} THEN "VILLAGE"
    ELSE IF Cardinality(LivingWolves(s)) >= Cardinality(LivingOthers(s)) THEN "WOLF"
    ELSE NoFaction

EventsWhere(s, description) ==
    {i \in 1 .. Len(s.public_events) : s.public_events[i].description = description}

LastEvent(s) == s.public_events[Len(s.public_events)]

Autoplay == sim \in {"web", "cli"}

\* C1: for every partition of the players into living and dead, check_winner
\* returns Village when no Wolf is alive (also when nobody is alive), otherwise
\* Wolf when living Wolves >= living non-Wolves, otherwise no winner; the result
\* is one of the three outcomes and zero Wolves always resolves to Village.
C1_CheckWinner ==
    pc = "returned" =>
        /\ result \in Faction \cup {NoFaction}
        /\ result = WinCondition(state)
        /\ (LivingWolves(state) = {} => result = "VILLAGE")
        /\ (result = "WOLF" =>
               /\ LivingWolves(state) # {}
               /\ Cardinality(LivingWolves(state)) >= Cardinality(LivingOthers(state)))
        /\ (result = NoFaction =>
               Cardinality(LivingWolves(state)) < Cardinality(LivingOthers(state)))

\* the boundary: no Wolf alive and one non-Wolf alive, resolved to Village
C1_Witness ==
    /\ pc = "returned"
    /\ LivingWolves(state) = {}
    /\ Cardinality(LivingOthers(state)) = 1
    /\ \E p \in Players : state.players[p].role = "WOLF"
    /\ result = "VILLAGE"

\* C2: whenever autoplay has completed a NightWitch or DayVote step together
\* with all the Hunter shots it triggers, the recorded winner equals the win
\* condition evaluated on the players alive at that moment.
C2_WinnerRechecked ==
    (Autoplay /\ pc = "loop" /\ branch # "none") =>
        state.winner = WinCondition(state)

\* C3: in every reachable GameState winner is set if and only if the phase
\* is GameOver.
C3_WinnerIffGameOver ==
    (state.winner # NoFaction) <=> (state.phase = "GAME_OVER")

\* a Hunter's shot ended the game: finalize_after_hunter set winner and phase
C3_Witness ==
    /\ Autoplay
    /\ pc = "loop"
    /\ state.phase = "GAME_OVER"
    /\ state.winner \in Faction
    /\ Len(state.public_events) >= 2
    /\ LastEvent(state).description = "game_over"
    /\ state.public_events[Len(state.public_events) - 1].description = "hunter_shot"

\* C4: every autoplay game terminates: the driving loop eventually reaches
\* GameOver or runs past the day cap (the exploration bound on days counts as
\* running on), whatever Action the strategy returns.
C4_Terminates ==
    <>(\/ state.phase = "GAME_OVER"
       \/ state.day > DayCap
       \/ state.day > MaxDay)

\* the action types the claim lists as not matching the phase
Mismatched(phase, type) ==
    \/ type = "KILL" /\ phase # "NIGHT_WOLF"
    \/ type = "CHECK" /\ phase # "NIGHT_SEER"
    \/ type \in {"KILL", "CHECK", "VOTE", "SPEAK"} /\ phase = "NIGHT_WITCH"
    \/ type = "VOTE" /\ phase # "DAY_VOTE"
    \/ phase = "GAME_OVER"

\* C5: apply_action with an action whose type does not match the current
\* phase changes nothing in the GameState.
C5_MismatchNoOp ==
    sim = "api" =>
        \A a \in AllActions :
            Mismatched(state.phase, a.action_type) => apply_action(state, a) = state

\* votes received by target t in the vote map
Tally(t) == Cardinality({i \in 1 .. Len(vote_map) : vote_map[i].target = t})

\* the targets holding the highest vote count
Leaders == {t \in Players : Tally(t) > 0 /\ \A u \in Players : Tally(u) <= Tally(t)}

\* the vote of this iteration has just been tallied and recorded
VoteJustTallied == Autoplay /\ pc = "hunters" /\ branch = "day" /\ iters = 0

\* C6: in the autoplay day vote, a single target with the highest count is
\* exiled (dead with cause Vote); when two or more targets share the highest
\* count nobody is exiled and a tie outcome, distinct from "no one voted", is
\* recorded.
C6_VoteTie ==
    VoteJustTallied =>
        /\ Cardinality(Leaders) = 1 =>
              \A t \in Leaders :
                  /\ LastEvent(state).description = "vote_exile"
                  /\ LastEvent(state).target_id = t
                  /\ ~state.players[t].alive
                  /\ state.players[t].death_reason = "VOTE"
        /\ Cardinality(Leaders) >= 2 =>
              /\ LastEvent(state).description = "vote_tie"
              /\ LastEvent(state).description # "no_vote"
              /\ LastEvent(state).target_id = None
              /\ \A i \in 1 .. Len(vote_map) : state.players[vote_map[i].voter].alive

\* three voters, three targets, one vote each: nobody leaves
C6_Witness ==
    /\ VoteJustTallied
    /\ Len(vote_map) = 3
    /\ Cardinality(Leaders) = 3
    /\ LastEvent(state).description = "vote_tie"

ShotEvents(s, h) ==
    {i \in EventsWhere(s, "hunter_shot") : s.public_events[i].actor_id = h}

DeadHunters(s) == {h \in Players : s.players[h].role = "HUNTER" /\ ~s.players[h].alive}

\* C7: no Hunter ever has more than one shot event, and when
\* resolve_hunter_shots returns every dead Hunter has exactly one, whose target
\* (if any) is dead with cause Hunter.
C7_HunterOnce ==
    Autoplay =>
        /\ \A h \in Players : Cardinality(ShotEvents(state, h)) <= 1
        /\ pc = "finalize" =>
              \A h \in DeadHunters(state) :
                  /\ Cardinality(ShotEvents(state, h)) = 1
                  /\ \A i \in ShotEvents(state, h) :
                        LET t == state.public_events[i].target_id
                        IN  t # None =>
                               /\ ~state.players[t].alive
                               /\ state.players[t].death_reason = "HUNTER"

\* a Hunter shot by another Hunter has fired as well
C7_Witness ==
    /\ Autoplay
    /\ pc = "finalize"
    /\ \E h \in DeadHunters(state) :
          /\ state.players[h].death_reason = "HUNTER"
          /\ Cardinality(ShotEvents(state, h)) = 1

NumHunters == Cardinality({p \in Players : state.players[p].role = "HUNTER"})

\* C8: one call of resolve_hunter_shots fires at most H shots in at most H
\* passes of its outer loop, H the number of Hunters, and leaves no unshot
\* dead Hunter behind.
C8_HunterLoopBounded ==
    Autoplay =>
        /\ shots <= NumHunters
        /\ iters <= NumHunters
        /\ pc = "finalize" =>
              \A h \in DeadHunters(state) : ShotEvents(state, h) # {}

\* a chain: the first Hunter's shot killed the second, who fired in a second pass
C8_Witness ==
    /\ Autoplay
    /\ pc = "finalize"
    /\ NumHunters = 2
    /\ shots = 2
    /\ iters = 2

\* C9: the night's wolf mark is resolved before the day: at the top of the
\* loop, pending_kill is None in DayDiscuss, DayVote, GameOver and NightWolf.
C9_PendingResolved ==
    (Autoplay /\ pc = "loop"
        /\ state.phase \in {"DAY_DISCUSS", "DAY_VOTE", "GAME_OVER", "NIGHT_WOLF"})
    => state.pending_kill = None

\* the step appended a Save event as its first new event
SaveStep ==
    /\ sim = "api"
    /\ state.phase = "NIGHT_WITCH"
    /\ Len(state'.public_events) > Len(state.public_events)
    /\ state'.public_events[Len(state.public_events) + 1].description = "witch_save"

NewEvents == SubSeq(state'.public_events, Len(state.public_events) + 1,
                    Len(state'.public_events))

\* C10: a NightWitch Save on t by witch a sets a's save_used and
\* saved_player_id = t; when t is the marked player the mark is cleared and t
\* does not die of the wolf attack; otherwise the marked player dies with cause
\* WolfKill at night resolution.
C10_Save ==
    [][SaveStep =>
        LET e == state'.public_events[Len(state.public_events) + 1]
            a == e.actor_id
            t == e.target_id
            k == state.pending_kill
        IN  /\ state'.private_info[a].witch_state.save_used
            /\ state'.private_info[a].witch_state.saved_player_id = t
            /\ k = t =>
                  /\ state'.players = state.players
                  /\ \A i \in 1 .. Len(NewEvents) : NewEvents[i].description # "night_kill"
            /\ (k # t /\ k \in Players) =>
                  /\ ~state'.players[k].alive
                  /\ state'.players[k].death_reason = "WOLF"
                  /\ \E i \in 1 .. Len(NewEvents) :
                        /\ NewEvents[i].description = "night_kill"
                        /\ NewEvents[i].target_id = k
            /\ state'.pending_kill = None
    ]_vars

\* a Save spent on a player other than the marked one; the marked one died
C10_Witness ==
    /\ sim = "api"
    /\ \E i \in EventsWhere(state, "witch_save") :
          /\ i + 1 \in EventsWhere(state, "night_kill")
          /\ state.public_events[i].target_id # state.public_events[i + 1].target_id
          /\ state.players[state.public_events[i + 1].target_id].death_reason = "WOLF"
          /\ state.private_info[state.public_events[i].actor_id].witch_state.save_used

\* ------------------------------------------------ the estimator
\* a world has been sampled for the rollout in progress
WorldSampled == sim = "est" /\ pc \in {"run_top", "run_mid", "tally", "rollout_done"}

\* the world has just been sampled and nothing has run in it yet
RolloutStart == sim = "est" /\ pc = "run_top" /\ fast.cycle = 0

WorldRole(p) == RoleGet(fast.roles, p)

Observer == est.actor_id

ObserverRole == state.players[est.actor_id].role

\* the targets the observing Seer holds a result for, by result
Cleared ==
    {state.private_info[Observer].seer_results[i].target :
        i \in {j \in 1 .. Len(state.private_info[Observer].seer_results) :
                  ~state.private_info[Observer].seer_results[j].is_wolf}}

\* C11: in every sampled world the multiset of roles over all player ids
\* equals the game's role counts; in particular the world has as many Wolves
\* as the game.
C11_RoleConservation ==
    WorldSampled =>
        /\ RoleKeys(fast.roles) = Players
        /\ \A r \in Role :
              Cardinality({p \in Players : WorldRole(p) = r})
                 = Cardinality({p \in Players : state.players[p].role = r})

\* Seer-cleared targets whose role no death has revealed
ClearedLiving == {t \in Cleared : state.players[t].alive}

NonWolvesInPool ==
    Cardinality({i \in 1 .. Len(residual_pool(state, Observer)) :
                    residual_pool(state, Observer)[i] # "WOLF"})

\* C12: when the observer is the Seer and the residual pool holds at least as
\* many non-Wolf roles as there are cleared targets of unrevealed role, every
\* sampled world gives a non-Wolf role to every target the Seer cleared.
C12_SeerConstraint ==
    (WorldSampled /\ ObserverRole = "SEER"
        /\ NonWolvesInPool >= Cardinality(ClearedLiving))
    => \A t \in Cleared : WorldRole(t) # "WOLF"

\* the Seer cleared the living Witch while a living Wolf is still unknown to it
C12_Witness ==
    /\ WorldSampled
    /\ ObserverRole = "SEER"
    /\ \E t \in ClearedLiving : state.players[t].role = "WITCH" /\ WorldRole(t) # "WOLF"
    /\ \E p \in Players \ (Cleared \cup {Observer}) :
          state.players[p].alive /\ WorldRole(p) = "WOLF"

TrueWolves == {p \in Players : state.players[p].role = "WOLF"}

WorldWolves == {p \in Players : WorldRole(p) = "WOLF"}

\* C13: in every sampled world the observer has its own role, every dead
\* player has its true role, and for a Wolf observer the Wolves of the world
\* are exactly the true Wolves.
C13_FixedRoles ==
    WorldSampled =>
        /\ WorldRole(Observer) = ObserverRole
        /\ \A p \in Players : ~state.players[p].alive => WorldRole(p) = state.players[p].role
        /\ ObserverRole = "WOLF" => WorldWolves = TrueWolves

\* a Wolf observer with a living teammate and a dead non-Wolf
C13_Witness ==
    /\ WorldSampled
    /\ ObserverRole = "WOLF"
    /\ \E p \in TrueWolves \ {Observer} : state.players[p].alive
    /\ \E p \in Players \ TrueWolves : ~state.players[p].alive

\* the step that closes one rollout
RolloutCounted == sim = "est" /\ pc = "rollout_done" /\ pc' # "rollout_done"

\* C14: estimate runs exactly num_simulations rollouts and returns
\* wins / num_simulations, where every rollout whose terminal faction is the
\* observer's faction (Wolf for a Wolf, Village otherwise) adds one to wins and
\* no other does; the result lies in [0, 1].
C14_EstimateCount ==
    /\ [](sim = "est" =>
            /\ est.sims <= NumSimulations
            /\ est.wins <= est.sims
            /\ pc \in {"sample", "run_top", "run_mid", "tally", "rollout_done"} =>
                  est.sims < NumSimulations
            /\ pc = "returned" =>
                  /\ est.sims = NumSimulations
                  /\ result.num_simulations = NumSimulations
                  /\ result.num_simulations > 0
                  /\ result.wins = est.wins
                  /\ result.wins \in 0 .. result.num_simulations)
    /\ [][RolloutCounted =>
            /\ est'.sims = est.sims + 1
            /\ fast.winner \in Faction
            /\ est'.wins = est.wins +
                  (IF fast.winner = faction_of(ObserverRole) THEN 1 ELSE 0)]_vars

\* a Wolf observer whose rollouts were won in part
C14_Witness ==
    /\ sim = "est"
    /\ pc = "returned"
    /\ ObserverRole = "WOLF"
    /\ result.wins > 0
    /\ result.wins < result.num_simulations

\* C15: no step of an estimate call changes the GameState: players (alive,
\* death cause, role), private_info, pending_kill, phase, day, winner and the
\* event log stay as they were at the call.
C15_NoWrites ==
    [][sim = "est" => state' = state]_vars

\* the call has returned after a rollout in which players died, a potion was
\* used and the Seer of the rollout checked somebody new
C15_Witness ==
    /\ sim = "est"
    /\ pc = "returned"
    /\ fast.alive # {p \in Players : state.players[p].alive}
    /\ fast.witch_save_used \/ fast.witch_poison_used
    /\ \A p \in Players : ~state.private_info[p].witch_state.save_used
                          /\ ~state.private_info[p].witch_state.poison_used
    /\ ObserverRole = "SEER"
    /\ Len(fast.seer_checked.items) > Len(state.private_info[Observer].seer_results)

\* what a rollout must start from according to the GameState
StartFromGameState ==
    [alive |-> {p \in Players : state.players[p].alive},
     witch_save_used |-> (ObserverRole = "WITCH"
                          /\ state.private_info[Observer].witch_state.save_used),
     witch_poison_used |-> (ObserverRole = "WITCH"
                            /\ state.private_info[Observer].witch_state.poison_used),
     seer_checked |-> IF ObserverRole = "SEER"
                      THEN state.private_info[Observer].seer_results ELSE <<>>]

\* C16: every rollout of one estimate call starts from the same living set,
\* Witch flags and Seer-check map, the ones the GameState gives, whatever the
\* rollouts before it did, and its seer_checked map is an object of its own.
C16_RolloutsIndependent ==
    RolloutStart =>
        /\ StartOf(fast) = est.start
        /\ StartOf(fast) = StartFromGameState
        /\ fast.seer_checked.object = "new"
        /\ fast.votes = <<>>
        /\ fast.winner = NoFaction

\* a later rollout starts undecided, with the observing Witch's Save already
\* spent, after a rollout that Village won: players died in that one
C16_Witness ==
    /\ RolloutStart
    /\ est.sims >= 1
    /\ est.wins >= 1
    /\ ObserverRole = "WITCH"
    /\ est.start.witch_save_used
    /\ ~est.start.witch_poison_used
    /\ is_game_over(fast) = NoFaction

\* C17: a run repeated with the same seed and player count records the same
\* recommendation in every event, the win-rate estimate included: the second
\* run's estimate for the same GameState and player equals the first run's.
C17_DeterministicReplay ==
    (sim = "est" /\ pc = "returned" /\ est.call = 2) => result = est.first

\* ------------------------------------------------ the rollout
FastLivingWolves == {p \in fast.alive : WorldRole(p) = "WOLF"}

FastLivingOthers == {p \in fast.alive : WorldRole(p) # "WOLF"}

\* the win condition on the rollout's living set
FastWinCondition ==
    IF FastLivingWolves = {} THEN "VILLAGE"
    ELSE IF Cardinality(FastLivingWolves) >= Cardinality(FastLivingOthers) THEN "WOLF"
    ELSE NoFaction

FastTally(t) ==
    IF \E i \in 1 .. Len(fast.votes) : fast.votes[i].target = t
    THEN fast.votes[CHOOSE i \in 1 .. Len(fast.votes) : fast.votes[i].target = t].count
    ELSE 0

\* the targets holding the highest tally
FastLeaders ==
    {t \in Players : FastTally(t) > 0 /\ \A u \in Players : FastTally(u) <= FastTally(t)}

\* the step that tallies the collected votes
TallyStep == sim = "est" /\ pc = "tally" /\ pc' # "tally"

\* C19: in a rollout day vote the player with the strictly highest tally
\* dies; when two or more targets share the highest tally the vote leaves the
\* living set unchanged.
C19_RolloutVote ==
    [][TallyStep =>
        /\ Cardinality(FastLeaders) = 1 => \A t \in FastLeaders : t \notin fast'.alive
        /\ Cardinality(FastLeaders) >= 2 => fast'.alive = fast.alive
    ]_vars

\* the living players the rollout's Seer-check map marks as Wolf
Exposed ==
    {t \in fast.alive :
        \E i \in 1 .. Len(fast.seer_checked.items) :
            fast.seer_checked.items[i].target = t /\ fast.seer_checked.items[i].is_wolf}

\* C20: in a rollout day phase, when the Seer-check map marks a living player
\* as Wolf, every living non-Wolf votes for that exposed Wolf, whatever its id
\* and whether or not the Seer is alive.
C20_VoteExposedWolf ==
    (sim = "est" /\ pc = "tally" /\ Exposed # {}) =>
        \E w \in Exposed : FastTally(w) >= Cardinality(FastLivingOthers)

\* ------------------------------------------------------------------ C21
NightStep == sim = "est" /\ pc = "run_top" /\ pc' = "run_mid"

\* the Hunters of the sampled world who leave the living set in this step
DyingHunters == {h \in fast.alive \ fast'.alive : WorldRole(h) = "HUNTER"}

\* h fired in this step: only the tally has a shot, and its shooter is the
\* player the vote removed
FiredBy(h) ==
    /\ TallyStep
    /\ fast.votes # <<>>
    /\ h = sorted_votes(fast.votes)[1].target
    /\ fast'.shot # None

\* C21: in a rollout every Hunter that dies in a night or in a tally (by wolf
\* kill, poison, vote or another Hunter's shot) fires in that same step, at a
\* player who was living, and the shot player has left the living set when the
\* step ends; a Hunter who dies last of all has nobody to fire at.
C21_HunterFires ==
    [][(NightStep \/ TallyStep) =>
          \A h \in DyingHunters :
              fast'.alive # {} =>
                  /\ FiredBy(h)
                  /\ fast'.shot \in fast.alive \ {h}
                  /\ fast'.shot \notin fast'.alive]_vars

\* ------------------------------------------------------------------ C22
FilterReturned == sim = "bridge" /\ pc = "returned" /\ args.fn = "filter_event_for_player"

NightPhases == {"NIGHT_WOLF", "NIGHT_SEER", "NIGHT_WITCH"}

\* viewer and actor are both Wolves of the stored game
WolfTeammates(player_id, actor_id) ==
    /\ roles_get(args.roles, player_id) = "WOLF"
    /\ actor_id # None
    /\ roles_get(args.roles, actor_id) = "WOLF"

Redacted(r) ==
    /\ r.is_hidden
    /\ r.description = Hidden
    /\ r.actor_id = None
    /\ r.target_id = None
    /\ r.recommendation = None

Shown(r, event) ==
    /\ ~r.is_hidden
    /\ r.description = event.description
    /\ r.actor_id = event.actor_id
    /\ r.target_id = event.target_id

\* C22: for a viewer p, filter_event_for_player returns the redacted
\* placeholder (no actor, no target, no recommendation, placeholder
\* description) exactly when the event is a night event, its actor is not p and
\* p and the actor are not both Wolves; otherwise, and so for every day-phase
\* and game-over event, it returns the event's description, actor and target;
\* with no viewer the event comes back unchanged.
C22_FilteredView ==
    FilterReturned =>
        LET event == args.event
            p == args.player_id
            secret == /\ event.phase \in NightPhases
                      /\ event.actor_id # p
                      /\ ~WolfTeammates(p, event.actor_id)
        IN  IF p = None THEN result = event
            ELSE /\ secret => Redacted(result)
                 /\ ~secret => Shown(result, event)

\* a Wolf's night action, with its recommendation, filtered for a living
\* non-Wolf and redacted
C22_Witness ==
    /\ FilterReturned
    /\ args.player_id \in Players
    /\ args.event.phase = "NIGHT_WOLF"
    /\ args.event.actor_id \in Players \ {args.player_id}
    /\ roles_get(args.roles, args.event.actor_id) = "WOLF"
    /\ roles_get(args.roles, args.player_id) # "WOLF"
    /\ args.event.recommendation # None
    /\ args.event.target_id # None
    /\ Redacted(result)

\* ------------------------------------------------------------------ C23
CreateReturned == sim = "create" /\ pc = "returned"

RECURSIVE SumCounts(_, _)
SumCounts(counts, rs) ==
    IF rs = {} THEN 0
    ELSE LET r == CHOOSE x \in rs : TRUE
         IN  counts[r] + SumCounts(counts, rs \ {r})

\* the roles the returned players actually hold
AssignedCount(r) ==
    Cardinality({i \in 1 .. Len(result.players) : result.players[i].role = r})

\* C23: whatever player count is requested, a GameState that
\* create_default_game returns has config.player_count equal to the number of
\* players and to the sum of the config's role counts, and each role's count
\* equal to the number of players assigned that role.
C23_ConsistentConfig ==
    CreateReturned =>
        /\ result.config.player_count = Len(result.players)
        /\ result.config.player_count =
               SumCounts(result.config.roles, DOMAIN result.config.roles)
        /\ \A r \in Role :
               AssignedCount(r) =
                   (IF r \in DOMAIN result.config.roles
                    THEN result.config.roles[r] ELSE 0)

\* ------------------------------------------------------------------ C24
\* the phase in which apply_action acts on an action of this type
PhaseOf(type) ==
    CASE type = "KILL" -> "NIGHT_WOLF"
      [] type = "CHECK" -> "NIGHT_SEER"
      [] type = "POISON" -> "NIGHT_WITCH"
      [] type = "VOTE" -> "DAY_VOTE"

\* C24: a reference to a player id the game does not hold fails with an
\* error and changes nothing: in the phase that acts on it, apply_action with a
\* Kill, Check, Poison or Vote on an unknown target raises and leaves the
\* GameState as it was (no phase change, no event); kill_player with an
\* unknown id raises; estimate for an unknown observer raises and returns no
\* win-rate.
C24_UnknownPlayerFails ==
    sim = "api" =>
        \A u \in UnknownIds :
            /\ \A type \in {"KILL", "CHECK", "POISON", "VOTE"} : \A a \in Players :
                   state.phase = PhaseOf(type) =>
                       /\ apply_action_raises(state, Action(type, a, u))
                       /\ apply_action(state, Action(type, a, u)) = state
            /\ kill_player_raises(state, u)
            /\ kill_player(state, u, "UNKNOWN") = state
            /\ estimate_raises(state, u)
            /\ ~estimate_returns_default(state, u)

\* ------------------------------------------------------------------ C25
\* an event that records a death: the night kill taking effect, the poison,
\* an exile with a target, a Hunter's shot with a target
DeathEvent(e) ==
    /\ e.description \in {"night_kill", "witch_poison", "vote_exile", "hunter_shot"}
    /\ e.target_id # None

DeathsRecorded == {i \in 1 .. Len(NewEvents) : DeathEvent(NewEvents[i])}

LivingCount(s) == Cardinality({p \in Players : s.players[p].alive})

\* C25: in autoplay the living players lost in a step are exactly the targets
\* of the death events the step records: each such event's target was living
\* and is dead afterwards, no two of them name the same player, and the number
\* of living players drops by the number of these events (so never without
\* one, and by 1 for each).
C25_DeathsMatchEvents ==
    [][Autoplay =>
          /\ LivingCount(state) - LivingCount(state') = Cardinality(DeathsRecorded)
          /\ \A i \in DeathsRecorded :
                 /\ state.players[NewEvents[i].target_id].alive
                 /\ ~state'.players[NewEvents[i].target_id].alive
          /\ \A i, j \in DeathsRecorded :
                 i # j => NewEvents[i].target_id # NewEvents[j].target_id]_vars

\* a game in which a Hunter killed at night has shot somebody: two deaths, two
\* death events
C25_Witness ==
    /\ Autoplay
    /\ LivingCount(state) = NumPlayers - 2
    /\ EventsWhere(state, "night_kill") # {}
    /\ \E i \in EventsWhere(state, "hunter_shot") :
           state.public_events[i].target_id # None

\* ------------------------------------------------------------------ C26
\* C26: in autoplay GameOver is terminal: from a state whose phase is
\* GAME_OVER no step reassigns the winner, changes a player's alive flag or
\* appends an event, and when run() has left its loop with the game over the
\* game-over record is the last entry of the event log.
C26_GameOverTerminal ==
    /\ [](Autoplay /\ pc = "loop" /\ state.phase = "GAME_OVER" =>
              LastEvent(state).description = "game_over")
    /\ [][Autoplay /\ state.phase = "GAME_OVER" =>
              /\ state'.phase = "GAME_OVER"
              /\ state'.winner = state.winner
              /\ \A p \in Players : state'.players[p].alive = state.players[p].alive
              /\ state'.public_events = state.public_events]_vars

\* ------------------------------------------------------------------ C27
\* the phase cycle
NextPhase(phase) ==
    CASE phase = "NIGHT_WOLF" -> "NIGHT_SEER"
      [] phase = "NIGHT_SEER" -> "NIGHT_WITCH"
      [] phase = "NIGHT_WITCH" -> "DAY_DISCUSS"
      [] phase = "DAY_DISCUSS" -> "DAY_VOTE"
      [] phase = "DAY_VOTE" -> "NIGHT_WOLF"
      [] phase = "GAME_OVER" -> "GAME_OVER"

\* C27: in autoplay every change of phase goes to the next phase of the
\* cycle NightWolf, NightSeer, NightWitch, DayDiscuss, DayVote, NightWolf or
\* to GameOver; day starts at 1, never decreases, and grows by exactly 1 in
\* exactly the steps that go from DayVote to NightWolf.
C27_PhaseCycle ==
    /\ (Autoplay => state.day = 1)
    /\ [][Autoplay =>
              /\ state'.phase # state.phase =>
                     state'.phase \in {NextPhase(state.phase), "GAME_OVER"}
              /\ state'.day \in {state.day, state.day + 1}
              /\ state'.day = state.day + 1 <=>
                     (state.phase = "DAY_VOTE" /\ state'.phase = "NIGHT_WOLF")]_vars

\* the second night has begun
C27_Witness ==
    /\ Autoplay
    /\ state.day = 2
    /\ state.phase = "NIGHT_SEER"

\* ------------------------------------------------------------------ C28
\* a Check has just been applied: one new event, recorded by the CHECK branch
CheckStep ==
    /\ state.phase = "NIGHT_SEER"
    /\ Len(NewEvents) = 1
    /\ NewEvents[1].description = "seer_check"

\* the results a seer_results dict holds for target t
ResultsFor(results, t) ==
    {results[i].is_wolf : i \in {j \in 1 .. Len(results) : results[j].target = t}}

SeerResults(s, p) == s.private_info[p].seer_results

\* C28: a NightSeer Check by actor a on target t leaves seer_results[t] of
\* a's private state equal to (role of t is Wolf), keeps a's other results and
\* a's Witch state, changes no other player's private state and no player
\* record, and moves the phase to NightWitch; in every reachable state each
\* stored result equals its target's true Wolf status, and a player holds
\* results only after acting in a Check (in autoplay only a Seer does).
C28_SeerCheck ==
    /\ [](\A p \in Players :
             /\ \A i \in 1 .. Len(SeerResults(state, p)) :
                    SeerResults(state, p)[i].is_wolf =
                        (role_of(state, SeerResults(state, p)[i].target) = "WOLF")
             /\ SeerResults(state, p) # <<>> =>
                    /\ \E i \in EventsWhere(state, "seer_check") :
                           state.public_events[i].actor_id = p
                    /\ Autoplay => role_of(state, p) = "SEER")
    /\ [][CheckStep =>
              LET a == NewEvents[1].actor_id
                  t == NewEvents[1].target_id
              IN  /\ ResultsFor(SeerResults(state', a), t) = {role_of(state, t) = "WOLF"}
                  /\ \A u \in Players \ {t} :
                         ResultsFor(SeerResults(state', a), u) =
                             ResultsFor(SeerResults(state, a), u)
                  /\ state'.private_info[a].witch_state = state.private_info[a].witch_state
                  /\ \A p \in Players \ {a} :
                         state'.private_info[p] = state.private_info[p]
                  /\ state'.players = state.players
                  /\ state'.phase = "NIGHT_WITCH"]_vars

\* a Check that found a Wolf has been stored and the night has moved on
C28_Witness ==
    /\ state.phase = "NIGHT_WITCH"
    /\ \E p \in Players :
           /\ Len(SeerResults(state, p)) = 1
           /\ SeerResults(state, p)[1].is_wolf
           /\ role_of(state, SeerResults(state, p)[1].target) = "WOLF"
           /\ \E i \in EventsWhere(state, "seer_check") :
                  state.public_events[i].actor_id = p

\* ------------------------------------------------------------------ C29
\* a Poison has just been applied: the POISON branch recorded its event first
PoisonStep ==
    /\ sim = "api"
    /\ state.phase = "NIGHT_WITCH"
    /\ Len(NewEvents) >= 1
    /\ NewEvents[1].description = "witch_poison"

\* C29: a NightWitch Poison by a on t leaves t dead and a's poison_used set,
\* recorded before the night is resolved; the pending wolf kill k is resolved
\* afterwards all the same (k dead, its event after the poison's, the mark
\* cleared), so that with k different from t both are dead, t with cause Witch
\* and k with cause WolfKill; and the win condition is evaluated on the
\* players left after both deaths.
C29_Poison ==
    [][PoisonStep =>
          LET a == NewEvents[1].actor_id
              t == NewEvents[1].target_id
              k == state.pending_kill
          IN  /\ ~state'.players[t].alive
              /\ state'.private_info[a].witch_state.poison_used
              /\ k # t => state'.players[t].death_reason = "WITCH"
              /\ k \in Players =>
                     /\ ~state'.players[k].alive
                     /\ Len(NewEvents) >= 2
                     /\ NewEvents[2].description = "night_kill"
                     /\ NewEvents[2].target_id = k
                     /\ k # t => state'.players[k].death_reason = "WOLF"
              /\ state'.pending_kill = None
              /\ state'.winner = WinCondition(state')
              /\ state'.phase =
                     (IF WinCondition(state') # NoFaction THEN "GAME_OVER"
                      ELSE "DAY_DISCUSS")]_vars

\* one night, two deaths: the poisoned player and a different marked player
C29_Witness ==
    /\ sim = "api"
    /\ \E i \in EventsWhere(state, "witch_poison") :
          /\ i + 1 \in EventsWhere(state, "night_kill")
          /\ state.public_events[i].target_id # state.public_events[i + 1].target_id
          /\ state.players[state.public_events[i].target_id].death_reason = "WITCH"
          /\ state.players[state.public_events[i + 1].target_id].death_reason = "WOLF"
          /\ state.private_info[state.public_events[i].actor_id].witch_state.poison_used

\* ------------------------------------------------------------------ C30
\* C30: the FastState estimate builds for a rollout has the living set of the
\* GameState; the observer's real Save and Poison flags when the observer is
\* the Witch, and both flags unused otherwise; a copy of the observer's own
\* seer_results when the observer is the Seer, and an empty Seer-check map
\* otherwise.
C30_FastStateBuilt ==
    RolloutStart =>
        /\ \A p \in Players : p \in fast.alive <=> state.players[p].alive
        /\ IF ObserverRole = "WITCH"
           THEN /\ fast.witch_save_used =
                       state.private_info[Observer].witch_state.save_used
                /\ fast.witch_poison_used =
                       state.private_info[Observer].witch_state.poison_used
           ELSE ~fast.witch_save_used /\ ~fast.witch_poison_used
        /\ IF ObserverRole = "SEER"
           THEN /\ fast.seer_checked.items = state.private_info[Observer].seer_results
                /\ fast.seer_checked.object = "new"
           ELSE fast.seer_checked.items = <<>>

\* built for a Witch who has spent her poison, in a game with a player dead
C30_Witness ==
    /\ RolloutStart
    /\ ObserverRole = "WITCH"
    /\ fast.witch_poison_used
    /\ ~fast.witch_save_used
    /\ \E p \in Players : ~state.players[p].alive /\ p \notin fast.alive

\* ------------------------------------------------------------------ C31
\* the non-Wolf roles the residual pool of this estimate call holds
PoolGoodRoles ==
    {residual_pool(state, Observer)[i] :
        i \in {j \in 1 .. Len(residual_pool(state, Observer)) :
                  residual_pool(state, Observer)[j] # "WOLF"}}

\* C31: for a Seer observer, a living target the Seer has cleared is a soft
\* constraint and not a fixed role: each non-Wolf role the residual pool holds
\* is the target's role in at least one of the worlds the sampling can build.
C31_ClearedSoft ==
    (sim = "est" /\ ObserverRole = "SEER") =>
        \A t \in ClearedLiving : \A r \in PoolGoodRoles :
            \E w \in sampled_worlds(state, Observer) : RoleGet(w, t) = r

\* ------------------------------------------------------------------ C32
\* the estimate call has a next step: the choice its position draws from is
\* not empty
EstimateCanStep ==
    CASE pc = "sample" -> sampled_worlds(state, Observer) # {}
      [] pc = "run_top" -> \/ fast.cycle = RolloutCap
                           \/ is_game_over(fast) # NoFaction
                           \/ night_phase(fast) # {}
      [] pc = "run_mid" -> is_game_over(fast) # NoFaction \/ day_votes(fast) # {}
      [] pc = "tally" -> day_tally(fast) # {}
      [] pc = "rollout_done" -> TRUE

\* C32: sampling is never a crash path: the residual pool holds at least one
\* role for every player still to be assigned, every sampled world gives
\* exactly one role to every player id, an estimate call that has not returned
\* always has a next step, and when it returns it has run all its rollouts.
C32_SamplingTotal ==
    sim = "est" =>
        /\ Len(residual_pool(state, Observer)) >= Len(unknown_players(state, Observer))
        /\ WorldSampled =>
               /\ RoleKeys(fast.roles) = Players
               /\ Len(fast.roles) = NumPlayers
               /\ \A p \in Players : WorldRole(p) \in Role
        /\ pc # "returned" => EstimateCanStep
        /\ pc = "returned" => est.sims = NumSimulations

\* a Seer with a cleared living target whose placeholder stayed in the pool,
\* in a call that has already completed a rollout
C32_Witness ==
    /\ WorldSampled
    /\ ObserverRole = "SEER"
    /\ ClearedLiving # {}
    /\ Len(residual_pool(state, Observer)) > Len(unknown_players(state, Observer))
    /\ est.sims >= 1

\* ------------------------------------------------------------------ C33
\* what the replay of the first n events says about the players
Replayed(n) ==
    replay([p \in Players |-> [alive |-> TRUE, death_reason |-> NoReason]],
           history_of(state), n)

\* what the GameState says about them
Authoritative ==
    [p \in Players |-> [alive |-> state.players[p].alive,
                        death_reason |-> state.players[p].death_reason]]

GameStepReturned ==
    sim = "web" /\ args.fn = "get_game_step" /\ "error" \notin DOMAIN result

\* C33: the event log and the role assignment are enough to replay the game:
\* in every state of an autoplay game, replaying the log recorded so far the
\* way get_game_step does gives every player the alive flag and the death
\* cause the GameState holds at that moment, and the player states
\* get_game_step returns for the last step of a finished game are those of the
\* final GameState.
C33_ReplayMatches ==
    /\ Autoplay => Replayed(Len(state.public_events)) = Authoritative
    /\ GameStepReturned =>
           /\ result.player_states = Replayed(result.step_index + 1)
           /\ result.step_index + 1 = Len(state.public_events) =>
                  result.player_states = Authoritative

\* the last step of a finished game replayed, with a poisoned player and a
\* player shot by a Hunter among the dead
C33_Witness ==
    /\ GameStepReturned
    /\ result.step_index + 1 = Len(state.public_events)
    /\ \E p, q \in Players :
           /\ result.player_states[p] = [alive |-> FALSE, death_reason |-> "WITCH"]
           /\ result.player_states[q] = [alive |-> FALSE, death_reason |-> "HUNTER"]

\* C34: for every role map and living set, FastState.is_game_over returns the
\* same faction (or none) as check_winner on a GameState with the same roles and
\* the same living players.
C34_SameWinner ==
    pc = "over" =>
        /\ fast.alive = {p \in Players : state.players[p].alive}
        /\ \A p \in Players : RoleGet(fast.roles, p) = state.players[p].role
        /\ result = check_winner(state)

\* the boundary where Wolves equal the others: both functions answer Wolf
C34_Witness ==
    /\ pc = "over"
    /\ Cardinality(LivingWolves(state)) = 1
    /\ Cardinality(LivingOthers(state)) = 1
    /\ result = "WOLF"
    /\ check_winner(state) = "WOLF"

\* the players poisoned by the step: a Poison event on them joins the log
PoisonedNow(p) ==
    \E i \in (Len(state.public_events) + 1) .. Len(state'.public_events) :
        /\ state'.public_events[i].description = "witch_poison"
        /\ state'.public_events[i].target_id = p

\* C35: a player dies at most once: under any sequence of apply_action calls
\* with arbitrary targets, a dead player stays dead and keeps its death cause,
\* and a player who dies by poison keeps the cause Witch when the wolf kill of
\* the same night is resolved on it afterwards.
C35_DiesOnce ==
    [][\A p \in Players :
          /\ ~state.players[p].alive =>
                /\ ~state'.players[p].alive
                /\ state'.players[p].death_reason = state.players[p].death_reason
          /\ (state.players[p].alive /\ PoisonedNow(p)) =>
                /\ ~state'.players[p].alive
                /\ state'.players[p].death_reason = "WITCH"]_vars

\* the player is alive and holds the role when the step begins
ActsAs(actor_id, role) ==
    /\ actor_id \in Players
    /\ state.players[actor_id].role = role
    /\ state.players[actor_id].alive

\* C36: in autoplay every night action is performed by a living player holding
\* the matching role: the actor of each Kill is a living Wolf, of each Check a
\* living Seer, and of each Save, Poison or Witch Pass a living Witch.
C36_NightActors ==
    [][Autoplay =>
          \A i \in 1 .. Len(NewEvents) :
              LET e == NewEvents[i]
              IN  /\ e.description = "wolf_target" => ActsAs(e.actor_id, "WOLF")
                  /\ e.description = "seer_check" => ActsAs(e.actor_id, "SEER")
                  /\ e.description \in {"witch_save", "witch_poison", "witch_pass"} =>
                        ActsAs(e.actor_id, "WITCH")]_vars

\* how many events of the log carry the description
CountEvents(description) ==
    Cardinality({i \in 1 .. Len(state.public_events) :
                    state.public_events[i].description = description})

\* a Save of this step by a player whose antidote was spent before the step
SaveAgain ==
    \E i \in 1 .. Len(NewEvents) :
        /\ NewEvents[i].description = "witch_save"
        /\ state.private_info[NewEvents[i].actor_id].witch_state.save_used

\* C37: each Witch potion is single-use in autoplay: over a whole game the log
\* contains at most one Save event and at most one Poison event, and no step
\* saves (and so clears pending_kill) with an antidote that was already used.
C37_SingleUse ==
    /\ [](Autoplay => /\ CountEvents("witch_save") <= 1
                      /\ CountEvents("witch_poison") <= 1)
    /\ [][Autoplay => ~SaveAgain]_vars

\* both potions spent in one game, the antidote on an earlier day
C37_Witness ==
    /\ Autoplay
    /\ CountEvents("witch_save") = 1
    /\ CountEvents("witch_poison") = 1
    /\ \E i \in 1 .. Len(state.public_events) :
          /\ state.public_events[i].description = "witch_save"
          /\ state.public_events[i].day < state.day

\* the ballots the day phase is meant to collect: one per living player, a
\* Wolf for a living non-Wolf, a non-Wolf for a living player other than itself
Ballots ==
    {v \in [fast.alive -> fast.alive] :
        /\ \A w \in FastLivingWolves : v[w] \in FastLivingOthers
        /\ \A g \in FastLivingOthers : v[g] # g}

\* the sum of the counts of the collected votes dict
VoteTotal ==
    LET RECURSIVE Sum(_)
        Sum(i) == IF i = 0 THEN 0 ELSE fast.votes[i].count + Sum(i - 1)
    IN  Sum(Len(fast.votes))

\* C38: in every rollout day phase each living player contributes exactly one
\* vote to the tally: the counts add up to the number of living players, and
\* the tally is that of one ballot per living player, a Wolf's for a living
\* non-Wolf and a non-Wolf's for a living player other than itself, whatever
\* the ids of the vote targets (player 0 included).
C38_OneVoteEach ==
    (sim = "est" /\ pc = "tally") =>
        /\ VoteTotal = Cardinality(fast.alive)
        /\ \E v \in Ballots :
              \A t \in Players : FastTally(t) = Cardinality({p \in fast.alive : v[p] = t})

\* C39: every rollout day phase that starts with no winner removes at least
\* one player from the living set, so the cycles a rollout has completed never
\* exceed the players it has lost; for games of at most 20 players the 20-cycle
\* cap is never exhausted and the faction run returns is the win condition on
\* the final living set, never the Village default.
C39_DayRemoves ==
    /\ [][TallyStep =>
            /\ is_game_over(fast) = NoFaction
            /\ fast'.alive \subseteq fast.alive
            /\ fast'.alive # fast.alive]_vars
    /\ [](WorldSampled =>
            /\ fast.cycle + Cardinality(fast.alive) <= NumPlayers
            /\ NumPlayers <= RolloutCap => fast.cycle < RolloutCap
            /\ pc = "rollout_done" => fast.winner = FastWinCondition)

\* a rollout the Wolves win after a day phase that removed a player
C39_Witness ==
    /\ WorldSampled
    /\ pc = "rollout_done"
    /\ fast.cycle >= 1
    /\ Cardinality(fast.alive) < NumPlayers
    /\ fast.winner = "WOLF"
    /\ FastWinCondition = "WOLF"

ViewReturned == sim = "api" /\ args.fn = "get_player_view"

\* both players are Wolves of the game s
BothWolves(s, p, q) ==
    /\ q \in Players
    /\ s.players[p].role = "WOLF"
    /\ s.players[q].role = "WOLF"

\* the games that differ from s in the role of one player p may not know:
\* another player, not a fellow Wolf of p in either game
RoleVariants(s, p) ==
    {[s EXCEPT !.players[q].role = r] :
        q \in {x \in Players \ {p} : ~BothWolves(s, p, x)},
        r \in {x \in Role : s.players[p].role = "WOLF" => x # "WOLF"}}

\* the games that differ from s in the actor or the target of one night event
\* performed by another player who is not a fellow Wolf of p
NightVariants(s, p) ==
    {[s EXCEPT !.public_events[i].actor_id = a, !.public_events[i].target_id = t] :
        i \in {j \in 1 .. Len(s.public_events) :
                  /\ s.public_events[j].phase \in NightPhases
                  /\ s.public_events[j].actor_id # p
                  /\ ~BothWolves(s, p, s.public_events[j].actor_id)},
        a \in {x \in Players \ {p} : ~BothWolves(s, p, x)},
        t \in Players \cup {None}}

\* C40: the view get_player_view(state, p) reveals no hidden information to p:
\* two games that differ only in the role of another player who is not a fellow
\* Wolf of p, or only in the actor or target of a night event performed by such
\* a player, yield the same view for p.
C40_ViewHidesSecrets ==
    ViewReturned =>
        \A s2 \in RoleVariants(state, args.player_id) \cup NightVariants(state, args.player_id) :
            get_player_view(s2, args.player_id) = result

====
